---- MODULE Spec2Model ----
(***************************************************************************)
(* Model of the session-scoped WebSocket bridge of status_messenger's      *)
(* example_app (src/example_app/main.py): the session registry             *)
(* (active_websockets), the status channel and its broadcaster, and the    *)
(* per-connection handler websocket_endpoint with its two relay tasks.     *)
(*                                                                         *)
(* Scheduling is asyncio's: one event loop, tasks interleave only at       *)
(* awaits, so every action below is one run of a task from one suspension  *)
(* point to the next.  asyncio.wait_for returns only once the awaited task *)
(* has ended (on expiry of the timeout it cancels the task and keeps       *)
(* waiting for it), so the timeout decides the except branch taken, not    *)
(* whether the task is still running.                                      *)
(*                                                                         *)
(* Two smaller programs of the repository are modelled next to it, each    *)
(* under a specification of its own: the simulated-work example            *)
(* (src/example app/app.py, AppSpec) and the polling status monitor of the *)
(* earlier variant of the bridge (src/backup/main.py, MonitorSpec).        *)
(***************************************************************************)
EXTENDS Integers, Sequences, FiniteSets, TLC

VARIABLES
    active_websockets,  \* main.py:45  session id -> connection handle or None
    statusQueue,        \* the status channel: FIFO of (session_id, text), each entry with
                        \* the handle that was live for its target when it was enqueued
    nextMsg,            \* number of the next status message to be enqueued
    broadcaster,        \* state of the status_message_broadcaster task
    sid,                \* per connection: session_id_from_path
    hpc,                \* per connection: where websocket_endpoint is suspended
    hcancel,            \* per connection: cancellation of the handler task is requested
    client_state,       \* per connection: websocket.client_state
    transport,          \* per connection: the wire ("open", "peer_closed", "server_closed")
    lrq,                \* per connection: live_request_queue ("none", "open", "closed")
    lrqCloses,          \* per connection: number of live_request_queue.close() calls made
    inbox,              \* per connection: contents sent to live_request_queue
    clientSent,         \* per connection: text frames the client has sent
    agentEmitted,       \* per connection: events the agent runtime has produced
    live_events,        \* per connection: the events live_events has yielded, in order
    a2c,                \* per connection: agent_to_client_task
    a2cMsg,             \* per connection: message_to_send of the relay suspended in send_text
    c2a,                \* per connection: client_to_agent_task
    cancelList,         \* per connection: tasks_to_cancel from the one being awaited on
    timedOut,           \* per connection: the 2.0 s of the current wait_for have elapsed
    outbox,             \* per connection: frames written with websocket.send_text
    handlerCtx,         \* per connection: the context var as seen by the handler task
    relayCtx,           \* per connection: the context var as copied into the relay tasks
    status_messages,    \* the list behind add_status_message(text) / get_status_messages()
                        \* used by src/example app/app.py and src/backup/main.py
    work_threads,       \* app.py: the threads created by trigger_work_endpoint, each with
                        \* the number of statements of do_simulated_work_sync it has run
    work_thread_holder, \* app.py:30  index in work_threads of work_thread_holder["thread"], 0: None
    responses,          \* app.py: status codes returned by POST /simulate_work, in order
    mpc,                \* backup: where application_status_monitor is suspended
    previously_broadcast_statuses,  \* backup main.py:83
    new_unique_statuses_to_broadcast,  \* backup main.py:95
    ws_items,           \* backup main.py:99  list(active_websockets.items()) of the current poll
    ws_i,               \* backup: position of the outer for loop in ws_items
    msgs_left           \* backup: texts the inner for loop has still to send to ws_items[ws_i]

vars == <<active_websockets, statusQueue, nextMsg, broadcaster, sid, hpc, hcancel,
          client_state, transport, lrq, lrqCloses, inbox, clientSent, agentEmitted, live_events,
          a2c, a2cMsg, c2a, cancelList, timedOut, outbox, handlerCtx,
          relayCtx, status_messages, work_threads, work_thread_holder, responses,
          mpc, previously_broadcast_statuses, new_unique_statuses_to_broadcast,
          ws_items, ws_i, msgs_left>>

connVars == <<sid, hpc, hcancel, client_state, transport, lrq, lrqCloses, inbox, clientSent,
              agentEmitted, live_events, a2c, a2cMsg, c2a, cancelList, timedOut,
              handlerCtx, relayCtx>>

channelVars == <<statusQueue, nextMsg>>

\* the state of the simulated-work example (src/example app/app.py)
appVars == <<work_threads, work_thread_holder, responses>>

\* the state of the polling monitor (src/backup/main.py)
monitorVars == <<mpc, previously_broadcast_statuses, new_unique_statuses_to_broadcast,
                 ws_items, ws_i, msgs_left>>

\* the state of the two other programs of the repository, which the bridge of
\* src/example_app/main.py never touches
variantVars == <<status_messages, appVars, monitorVars>>

\* ------------------------------------------------------------------ bounds
MaxMsgs == 2          \* status messages enqueued in one behaviour
MaxSolo == 3          \* client frames and agent events relayed on a connection served alone
MaxRelayed == 1       \* client frames and agent events relayed in one behaviour

MaxMixed == 2         \* agent events of any shape relayed on a connection served alone

MaxPosts == 4         \* POST /simulate_work requests in one behaviour

MaxStatuses == 3      \* add_status_message calls seen by the polling monitor

\* ------------------------------------------------------------- value sets
None == "None"
Sessions == {"s1", "s2"}
Conns == {"w1", "w2"}
Tasks == {"a2c", "c2a"}

\* AgentEvent as the relay reads it: event.turn_complete, event.interrupted and
\* the text of the first content part (None: no content, no parts or no text).
TurnComplete == [turn_complete |-> TRUE, interrupted |-> FALSE, text |-> None]
Interrupted == [turn_complete |-> FALSE, interrupted |-> TRUE, text |-> None]
Message(t) == [turn_complete |-> FALSE, interrupted |-> FALSE, text |-> t]
AgentEvents == {TurnComplete, Interrupted, Message("hi"), Message("")}

\* ------------------------------------------------------------ pure helpers
TaskDone(st) == st \in {"done", "cancelled"}

RECURSIVE SumOver(_, _)
SumOver(f, S) ==
    IF S = {} THEN 0
    ELSE LET x == CHOOSE y \in S : TRUE IN f[x] + SumOver(f, S \ {x})

TaskState(c, t) == IF t = "a2c" THEN a2c[c] ELSE c2a[c]

StatusFrame(text) == [type |-> "status", data |-> text]

IsStatus(f) == f.type = "status"

\* message_to_send = None
NoMessage == [type |-> "none"]

\* message_to_send with the test of event.interrupted made first
MessageToSend_InterruptedFirst(event) ==
    IF event.interrupted
    THEN [type |-> "agent_interrupted", interrupted |-> TRUE]
    ELSE IF event.turn_complete
         THEN [type |-> "agent_turn_complete", turn_complete |-> TRUE]
         ELSE IF event.text # None /\ event.text # ""
              THEN [type |-> "agent_message", message |-> event.text]
              ELSE NoMessage

\* message_to_send without the test of part.text: a frame for every event
MessageToSend_NoTextGuard(event) ==
    IF event.turn_complete
    THEN [type |-> "agent_turn_complete", turn_complete |-> TRUE]
    ELSE IF event.interrupted
         THEN [type |-> "agent_interrupted", interrupted |-> TRUE]
         ELSE [type |-> "agent_message", message |-> event.text]

\* message_to_send of agent_to_client_messaging for one event
MessageToSend(event) ==
    IF event.turn_complete
    THEN [type |-> "agent_turn_complete", turn_complete |-> TRUE]
    ELSE IF event.interrupted
         THEN [type |-> "agent_interrupted", interrupted |-> TRUE]
         ELSE IF event.text # None /\ event.text # ""
              THEN [type |-> "agent_message", message |-> event.text]
              ELSE NoMessage

\* Content(role="user", parts=[Part.from_text(text=text)])
UserContent(text) == [role |-> "user", text |-> text]

\* ws and ws.client_state == WebSocketState.CONNECTED
Connected(ws) == ws # None /\ client_state[ws] = "CONNECTED"

\* ---------------------------------------------------------- status channel
\* the handle that is registered and connected for s on an open wire, if any
LiveHandle(s) ==
    IF Connected(active_websockets[s]) /\ transport[active_websockets[s]] = "open"
    THEN active_websockets[s] ELSE None

\* status_messenger.add_status_message(text, session_id=None): the id is the
\* explicit one, else the ambient one; with neither the message is dropped.
add_status_message(queue, text, session_id, ambient) ==
    LET target == IF session_id # None THEN session_id ELSE ambient
    IN  IF target = None THEN queue
        ELSE Append(queue, [sid |-> target, text |-> text, live |-> LiveHandle(target)])

\* the texts are numbered in the order of the calls
Enqueue(session_id, ambient) ==
    /\ nextMsg <= MaxMsgs
    /\ statusQueue' = add_status_message(statusQueue, nextMsg, session_id, ambient)
    /\ nextMsg' = nextMsg + 1

\* a producer anywhere in the process enqueues with an explicit session id
AddStatusMessage(s) ==
    /\ Enqueue(s, None)
    /\ UNCHANGED <<active_websockets, broadcaster, outbox>>
    /\ UNCHANGED <<connVars, variantVars>>

\* the status_message tool, run by the agent runtime inside the relay task that
\* drives live_events: no explicit id, the ambient one of that task
status_message(c) ==
    /\ a2c[c] = "pull"
    /\ Enqueue(None, relayCtx[c])
    /\ UNCHANGED <<active_websockets, broadcaster, outbox>>
    /\ UNCHANGED <<connVars, variantVars>>

\* ------------------------------------------------------------- broadcaster
\* the lookup of the polling variant: any connected handle, whatever its id
StatusTarget_AnyConnected(m) ==
    IF \E c \in Conns : client_state[c] = "CONNECTED"
    THEN CHOOSE c \in Conns : client_state[c] = "CONNECTED"
    ELSE None

\* ws = active_websockets.get(target_session_id)
StatusTarget(m) == active_websockets[m.sid]

\* await websocket.send_text(...): the frame is written to an open wire; on a
\* wire the peer or the server has closed the send raises
SendText(ws, frame) ==
    IF transport[ws] = "open"
    THEN [outbox EXCEPT ![ws] = Append(@, frame)]
    ELSE outbox

\* the send guarded by the inverted test
broadcast_app_status_to_client_Inverted(ws, status_text) ==
    IF client_state[ws] # "CONNECTED"
    THEN SendText(ws, StatusFrame(status_text))
    ELSE outbox

\* broadcast_app_status_to_client
broadcast_app_status_to_client(ws, status_text) ==
    IF client_state[ws] = "CONNECTED"
    THEN SendText(ws, StatusFrame(status_text))
    ELSE outbox

\* the broadcaster with active_websockets[target_session_id] in place of .get():
\* a target that is not registered raises KeyError out of the loop
status_message_broadcaster_KeyError ==
    /\ broadcaster = "running"
    /\ statusQueue # <<>>
    /\ LET m == Head(statusQueue)
           ws == StatusTarget(m)
       IN  /\ statusQueue' = Tail(statusQueue)
           /\ outbox' = IF Connected(ws)
                        THEN broadcast_app_status_to_client(ws, m.text)
                        ELSE outbox
           /\ broadcaster' = IF ws = None THEN "dead" ELSE "running"
    /\ UNCHANGED <<active_websockets, nextMsg>>
    /\ UNCHANGED <<connVars, variantVars>>

\* the broadcaster sending each message from a task of its own: the sends
\* complete in any order
status_message_broadcaster_Unordered ==
    /\ broadcaster = "running"
    /\ \E i \in 1..Len(statusQueue) :
         LET m == statusQueue[i]
             ws == StatusTarget(m)
         IN  /\ statusQueue' = SubSeq(statusQueue, 1, i - 1)
                                 \o SubSeq(statusQueue, i + 1, Len(statusQueue))
             /\ outbox' = IF Connected(ws)
                          THEN broadcast_app_status_to_client(ws, m.text)
                          ELSE outbox
    /\ UNCHANGED <<active_websockets, nextMsg, broadcaster>>
    /\ UNCHANGED <<connVars, variantVars>>

\* the broadcaster putting a message it could not deliver back on the channel
status_message_broadcaster_Requeue ==
    /\ broadcaster = "running"
    /\ statusQueue # <<>>
    /\ LET m == Head(statusQueue)
           ws == StatusTarget(m)
       IN  /\ outbox' = IF Connected(ws)
                        THEN broadcast_app_status_to_client(ws, m.text)
                        ELSE outbox
           /\ statusQueue' = IF outbox' = outbox
                             THEN Append(Tail(statusQueue), m)
                             ELSE Tail(statusQueue)
    /\ UNCHANGED <<active_websockets, nextMsg, broadcaster>>
    /\ UNCHANGED <<connVars, variantVars>>

\* the broadcaster removing the entry of a handle it finds not connected (the
\* option the comment in the elif branch leaves out)
status_message_broadcaster_Deregisters ==
    /\ broadcaster = "running"
    /\ statusQueue # <<>>
    /\ LET m == Head(statusQueue)
           ws == StatusTarget(m)
       IN  /\ statusQueue' = Tail(statusQueue)
           /\ outbox' = IF Connected(ws)
                        THEN broadcast_app_status_to_client(ws, m.text)
                        ELSE outbox
           /\ active_websockets' = IF ws # None /\ ~Connected(ws)
                                   THEN [active_websockets EXCEPT ![m.sid] = None]
                                   ELSE active_websockets
    /\ broadcaster' = "running"
    /\ UNCHANGED nextMsg
    /\ UNCHANGED <<connVars, variantVars>>

\* the broadcaster without the try/except around the send: an exception of
\* send_text leaves the async for and ends the task
status_message_broadcaster_DiesOnSendError ==
    /\ broadcaster = "running"
    /\ statusQueue # <<>>
    /\ LET m == Head(statusQueue)
           ws == StatusTarget(m)
       IN  /\ statusQueue' = Tail(statusQueue)
           /\ outbox' = IF Connected(ws)
                        THEN broadcast_app_status_to_client(ws, m.text)
                        ELSE outbox
           /\ broadcaster' = IF Connected(ws) /\ transport[ws] # "open"
                             THEN "dead" ELSE "running"
    /\ UNCHANGED <<active_websockets, nextMsg>>
    /\ UNCHANGED <<connVars, variantVars>>

\* one iteration of the async for of status_message_broadcaster: the next
\* message is pulled, its target looked up and the frame sent; an exception of
\* the send is caught and logged, a miss is logged
status_message_broadcaster ==
    /\ broadcaster = "running"
    /\ statusQueue # <<>>
    /\ LET m == Head(statusQueue)
           ws == StatusTarget(m)
       IN  /\ statusQueue' = Tail(statusQueue)
           /\ outbox' = IF Connected(ws)
                        THEN broadcast_app_status_to_client(ws, m.text)
                        ELSE outbox
    /\ broadcaster' = "running"
    /\ UNCHANGED <<active_websockets, nextMsg>>
    /\ UNCHANGED <<connVars, variantVars>>

\* ------------------------------------------------------------ relay tasks
\* the client frames received and agent events consumed so far
Relayed == SumOver(clientSent, Conns) + SumOver(agentEmitted, Conns)

\* agent_to_client_messaging: the async for receives one event, with at most
\* `budget` frames and events relayed in the behaviour
A2CEventWithin(c, event, budget) ==
    /\ a2c[c] = "pull"
    /\ Relayed < budget
    /\ agentEmitted' = [agentEmitted EXCEPT ![c] = @ + 1]
    /\ live_events' = [live_events EXCEPT ![c] = Append(@, event)]
    /\ LET m == MessageToSend(event)
       IN  IF m = NoMessage
           THEN UNCHANGED <<a2c, a2cMsg>>
           ELSE /\ a2c' = [a2c EXCEPT ![c] = "send"]
                /\ a2cMsg' = [a2cMsg EXCEPT ![c] = m]
    /\ UNCHANGED <<active_websockets, broadcaster, outbox, sid, hpc, hcancel,
                   client_state, transport, lrq, lrqCloses, inbox, clientSent, c2a, cancelList,
                   timedOut, handlerCtx, relayCtx>>
    /\ UNCHANGED <<channelVars, variantVars>>

A2CEvent(c, event) == A2CEventWithin(c, event, MaxRelayed)

\* the sending relay with the failure of a send caught inside the loop: the
\* relay goes on to the next event
A2CSend_IgnoresFailure(c) ==
    /\ a2c[c] = "send"
    /\ outbox' = SendText(c, a2cMsg[c])
    /\ a2c' = [a2c EXCEPT ![c] = "pull"]
    /\ a2cMsg' = [a2cMsg EXCEPT ![c] = NoMessage]
    /\ UNCHANGED <<active_websockets, broadcaster, sid, hpc, hcancel, client_state,
                   transport, lrq, lrqCloses, inbox, clientSent, agentEmitted, live_events,
                   c2a, cancelList, timedOut, handlerCtx, relayCtx>>
    /\ UNCHANGED <<channelVars, variantVars>>

\* the sending relay with its frames put in front of what was written before
A2CSend_Prepends(c) ==
    /\ a2c[c] = "send"
    /\ outbox' = IF transport[c] = "open"
                 THEN [outbox EXCEPT ![c] = <<a2cMsg[c]>> \o @]
                 ELSE outbox
    /\ a2c' = [a2c EXCEPT ![c] = IF transport[c] = "open" THEN "pull" ELSE "done"]
    /\ a2cMsg' = [a2cMsg EXCEPT ![c] = NoMessage]
    /\ UNCHANGED <<active_websockets, broadcaster, sid, hpc, hcancel, client_state,
                   transport, lrq, lrqCloses, inbox, clientSent, agentEmitted, live_events,
                   c2a, cancelList, timedOut, handlerCtx, relayCtx>>
    /\ UNCHANGED <<channelVars, variantVars>>

\* agent_to_client_messaging: await websocket.send_text(json.dumps(message_to_send));
\* a failed send is caught by except Exception and ends the task
A2CSend(c) ==
    /\ a2c[c] = "send"
    /\ outbox' = SendText(c, a2cMsg[c])
    /\ a2c' = [a2c EXCEPT ![c] = IF transport[c] = "open" THEN "pull" ELSE "done"]
    /\ a2cMsg' = [a2cMsg EXCEPT ![c] = NoMessage]
    /\ UNCHANGED <<active_websockets, broadcaster, sid, hpc, hcancel, client_state,
                   transport, lrq, lrqCloses, inbox, clientSent, agentEmitted, live_events, c2a, cancelList,
                   timedOut, handlerCtx, relayCtx>>
    /\ UNCHANGED <<channelVars, variantVars>>

\* agent_to_client_messaging: live_events finishes, or raises (except Exception)
A2CStreamEnds(c) ==
    /\ a2c[c] = "pull"
    /\ a2c' = [a2c EXCEPT ![c] = "done"]
    /\ UNCHANGED <<active_websockets, broadcaster, outbox, sid, hpc, hcancel,
                   client_state, transport, lrq, lrqCloses, inbox, clientSent, agentEmitted, live_events,
                   a2cMsg, c2a, cancelList, timedOut, handlerCtx, relayCtx>>
    /\ UNCHANGED <<channelVars, variantVars>>

\* the receiving relay keeping only the frame received last
C2AReceiveWithin_KeepsLast(c, budget) ==
    /\ c2a[c] = "run"
    /\ transport[c] = "open"
    /\ Relayed < budget
    /\ clientSent' = [clientSent EXCEPT ![c] = @ + 1]
    /\ inbox' = [inbox EXCEPT ![c] = <<UserContent(clientSent[c] + 1)>>]
    /\ UNCHANGED <<active_websockets, broadcaster, outbox, sid, hpc, hcancel,
                   client_state, transport, lrq, lrqCloses, agentEmitted, live_events, a2c,
                   a2cMsg, c2a, cancelList, timedOut, handlerCtx, relayCtx>>
    /\ UNCHANGED <<channelVars, variantVars>>

\* client_to_agent_messaging: receive_text returns the client's next frame and
\* the relay hands it to live_request_queue.send_content; at most `budget`
\* frames and events are relayed in the behaviour
C2AReceiveWithin(c, budget) ==
    /\ c2a[c] = "run"
    /\ transport[c] = "open"
    /\ Relayed < budget
    /\ clientSent' = [clientSent EXCEPT ![c] = @ + 1]
    /\ inbox' = [inbox EXCEPT ![c] = Append(@, UserContent(clientSent[c] + 1))]
    /\ UNCHANGED <<active_websockets, broadcaster, outbox, sid, hpc, hcancel,
                   client_state, transport, lrq, lrqCloses, agentEmitted, live_events, a2c,
                   a2cMsg, c2a, cancelList, timedOut, handlerCtx, relayCtx>>
    /\ UNCHANGED <<channelVars, variantVars>>

C2AReceive(c) == C2AReceiveWithin(c, MaxRelayed)

\* client_to_agent_messaging: receive_text meets the client's close; starlette
\* sets client_state, the relay closes the queue (except WebSocketDisconnect)
C2ADisconnect(c) ==
    /\ c2a[c] = "run"
    /\ transport[c] = "peer_closed"
    /\ client_state' = [client_state EXCEPT ![c] = "DISCONNECTED"]
    /\ lrq' = [lrq EXCEPT ![c] = "closed"]
    /\ lrqCloses' = [lrqCloses EXCEPT ![c] = @ + 1]
    /\ c2a' = [c2a EXCEPT ![c] = "done"]
    /\ UNCHANGED <<active_websockets, broadcaster, outbox, sid, hpc, hcancel,
                   transport, inbox, clientSent, agentEmitted, live_events, a2c, a2cMsg,
                   cancelList, timedOut, handlerCtx, relayCtx>>
    /\ UNCHANGED <<channelVars, variantVars>>

\* the receiving relay with the handlers inside its loop: after an error the
\* queue is closed and the loop goes on receiving
C2AError_NoBreak(c) ==
    /\ c2a[c] = "run"
    /\ transport[c] = "open"
    /\ lrq' = [lrq EXCEPT ![c] = "closed"]
    /\ lrqCloses' = [lrqCloses EXCEPT ![c] = @ + 1]
    /\ c2a' = c2a
    /\ UNCHANGED <<active_websockets, broadcaster, outbox, sid, hpc, hcancel,
                   client_state, transport, inbox, clientSent, agentEmitted, live_events, a2c,
                   a2cMsg, cancelList, timedOut, handlerCtx, relayCtx>>
    /\ UNCHANGED <<channelVars, variantVars>>

\* client_to_agent_messaging: receive_text or send_content raises (except Exception)
C2AError(c) ==
    /\ c2a[c] = "run"
    /\ transport[c] = "open"
    /\ lrq' = [lrq EXCEPT ![c] = "closed"]
    /\ lrqCloses' = [lrqCloses EXCEPT ![c] = @ + 1]
    /\ c2a' = [c2a EXCEPT ![c] = "done"]
    /\ UNCHANGED <<active_websockets, broadcaster, outbox, sid, hpc, hcancel,
                   client_state, transport, inbox, clientSent, agentEmitted, live_events, a2c,
                   a2cMsg, cancelList, timedOut, handlerCtx, relayCtx>>
    /\ UNCHANGED <<channelVars, variantVars>>

\* the relays with CancelledError caught and not raised again: the task returns
RelayCancelled_Absorbed(c, t) ==
    /\ TaskState(c, t) = "cancelling"
    /\ IF t = "a2c"
       THEN /\ a2c' = [a2c EXCEPT ![c] = "done"]
            /\ a2cMsg' = [a2cMsg EXCEPT ![c] = NoMessage]
            /\ UNCHANGED <<c2a, lrq, lrqCloses>>
       ELSE /\ c2a' = [c2a EXCEPT ![c] = "done"]
            /\ lrq' = [lrq EXCEPT ![c] = "closed"]
            /\ lrqCloses' = [lrqCloses EXCEPT ![c] = @ + 1]
            /\ UNCHANGED <<a2c, a2cMsg>>
    /\ UNCHANGED <<active_websockets, broadcaster, outbox, sid, hpc, hcancel,
                   client_state, transport, inbox, clientSent, agentEmitted,
                   live_events, cancelList, timedOut, handlerCtx, relayCtx>>
    /\ UNCHANGED <<channelVars, variantVars>>

\* the relays with client_to_agent not closing the queue when it is cancelled
RelayCancelled_NoClose(c, t) ==
    /\ TaskState(c, t) = "cancelling"
    /\ IF t = "a2c"
       THEN /\ a2c' = [a2c EXCEPT ![c] = "cancelled"]
            /\ a2cMsg' = [a2cMsg EXCEPT ![c] = NoMessage]
            /\ UNCHANGED <<c2a, lrq, lrqCloses>>
       ELSE /\ c2a' = [c2a EXCEPT ![c] = "cancelled"]
            /\ UNCHANGED <<a2c, a2cMsg, lrq, lrqCloses>>
    /\ UNCHANGED <<active_websockets, broadcaster, outbox, sid, hpc, hcancel,
                   client_state, transport, inbox, clientSent, agentEmitted, live_events,
                   cancelList, timedOut, handlerCtx, relayCtx>>
    /\ UNCHANGED <<channelVars, variantVars>>

\* except asyncio.CancelledError of either relay: the cancellation requested by
\* task.cancel() is thrown at the relay's await; client_to_agent closes the queue
RelayCancelled(c, t) ==
    /\ TaskState(c, t) = "cancelling"
    /\ IF t = "a2c"
       THEN /\ a2c' = [a2c EXCEPT ![c] = "cancelled"]
            /\ a2cMsg' = [a2cMsg EXCEPT ![c] = NoMessage]
            /\ UNCHANGED <<c2a, lrq, lrqCloses>>
       ELSE /\ c2a' = [c2a EXCEPT ![c] = "cancelled"]
            /\ lrq' = [lrq EXCEPT ![c] = "closed"]
            /\ lrqCloses' = [lrqCloses EXCEPT ![c] = @ + 1]
            /\ UNCHANGED <<a2c, a2cMsg>>
    /\ UNCHANGED <<active_websockets, broadcaster, outbox, sid, hpc, hcancel,
                   client_state, transport, inbox, clientSent, agentEmitted, live_events,
                   cancelList, timedOut, handlerCtx, relayCtx>>
    /\ UNCHANGED <<channelVars, variantVars>>

\* ------------------------------------------------- websocket_endpoint: setup
\* Connections and session ids are interchangeable: the first connection to
\* arrive is called w1 and its id s1.
ConnectOrder(c, s) ==
    /\ c = "w1" => s = "s1"
    /\ c = "w2" => hpc["w1"] # "idle"

\* the session id kept in a module global instead of a context variable: the
\* binding of one handler is the binding every task sees
Connect_SharedContext(c, s) ==
    /\ hpc[c] = "idle"
    /\ ConnectOrder(c, s)
    /\ sid' = [sid EXCEPT ![c] = s]
    /\ client_state' = [client_state EXCEPT ![c] = "CONNECTED"]
    /\ transport' = [transport EXCEPT ![c] = "open"]
    /\ active_websockets' = [active_websockets EXCEPT ![s] = c]
    /\ handlerCtx' = [d \in Conns |-> s]
    /\ hpc' = [hpc EXCEPT ![c] = "starting"]
    /\ UNCHANGED <<broadcaster, outbox, hcancel, lrq, lrqCloses, inbox, clientSent,
                   agentEmitted, live_events, a2c, a2cMsg, c2a, cancelList, timedOut, relayCtx>>
    /\ UNCHANGED <<channelVars, variantVars>>

\* the registration with setdefault: an id already registered keeps its handle
Connect_KeepsFirst(c, s) ==
    /\ hpc[c] = "idle"
    /\ ConnectOrder(c, s)
    /\ sid' = [sid EXCEPT ![c] = s]
    /\ client_state' = [client_state EXCEPT ![c] = "CONNECTED"]
    /\ transport' = [transport EXCEPT ![c] = "open"]
    /\ active_websockets' = [active_websockets EXCEPT ![s] = IF @ = None THEN c ELSE @]
    /\ handlerCtx' = [handlerCtx EXCEPT ![c] = s]
    /\ hpc' = [hpc EXCEPT ![c] = "starting"]
    /\ UNCHANGED <<broadcaster, outbox, hcancel, lrq, lrqCloses, inbox, clientSent,
                   agentEmitted, live_events, a2c, a2cMsg, c2a, cancelList, timedOut, relayCtx>>
    /\ UNCHANGED <<channelVars, variantVars>>

\* await websocket.accept(); active_websockets[session_id] = websocket;
\* current_websocket_session_id_var.set(session_id); up to the await of
\* start_agent_session
Connect(c, s) ==
    /\ hpc[c] = "idle"
    /\ ConnectOrder(c, s)
    /\ sid' = [sid EXCEPT ![c] = s]
    /\ client_state' = [client_state EXCEPT ![c] = "CONNECTED"]
    /\ transport' = [transport EXCEPT ![c] = "open"]
    /\ active_websockets' = [active_websockets EXCEPT ![s] = c]
    /\ handlerCtx' = [handlerCtx EXCEPT ![c] = s]
    /\ hpc' = [hpc EXCEPT ![c] = "starting"]
    /\ UNCHANGED <<broadcaster, outbox, hcancel, lrq, lrqCloses, inbox, clientSent,
                   agentEmitted, live_events, a2c, a2cMsg, c2a, cancelList, timedOut, relayCtx>>
    /\ UNCHANGED <<channelVars, variantVars>>

\* the relay tasks started in an empty context instead of a copy of the handler's
StartAgentSession_EmptyContext(c) ==
    /\ hpc[c] = "starting"
    /\ ~hcancel[c]
    /\ lrq' = [lrq EXCEPT ![c] = "open"]
    /\ UNCHANGED lrqCloses
    /\ a2c' = [a2c EXCEPT ![c] = "pull"]
    /\ c2a' = [c2a EXCEPT ![c] = "run"]
    /\ relayCtx' = [relayCtx EXCEPT ![c] = None]
    /\ hpc' = [hpc EXCEPT ![c] = "waiting"]
    /\ UNCHANGED <<active_websockets, broadcaster, outbox, sid, hcancel,
                   client_state, transport, inbox, clientSent, agentEmitted, live_events, a2cMsg,
                   cancelList, timedOut, handlerCtx>>
    /\ UNCHANGED <<channelVars, variantVars>>

\* start_agent_session returns; both relay tasks are created (each with a copy
\* of the handler's context) and the handler suspends in asyncio.wait
StartAgentSession(c) ==
    /\ hpc[c] = "starting"
    /\ ~hcancel[c]
    /\ lrq' = [lrq EXCEPT ![c] = "open"]
    /\ UNCHANGED lrqCloses
    /\ a2c' = [a2c EXCEPT ![c] = "pull"]
    /\ c2a' = [c2a EXCEPT ![c] = "run"]
    /\ relayCtx' = [relayCtx EXCEPT ![c] = handlerCtx[c]]
    /\ hpc' = [hpc EXCEPT ![c] = "waiting"]
    /\ UNCHANGED <<active_websockets, broadcaster, outbox, sid, hcancel,
                   client_state, transport, inbox, clientSent, agentEmitted, live_events, a2cMsg,
                   cancelList, timedOut, handlerCtx>>
    /\ UNCHANGED <<channelVars, variantVars>>

\* the client closes its end of the connection
ClientClose(c) ==
    /\ hpc[c] # "idle"
    /\ transport[c] = "open"
    /\ transport' = [transport EXCEPT ![c] = "peer_closed"]
    /\ UNCHANGED <<active_websockets, broadcaster, outbox, sid, hpc, hcancel,
                   client_state, lrq, lrqCloses, inbox, clientSent, agentEmitted, live_events, a2c, a2cMsg,
                   c2a, cancelList, timedOut, handlerCtx, relayCtx>>
    /\ UNCHANGED <<channelVars, variantVars>>

\* ---------------------------------------------- websocket_endpoint: finally
\* tasks_to_cancel with client_to_agent first in the fallback order
TasksToCancel_ReceiverFirst(c, pendingBound) ==
    LET notDone(t) == TaskState(c, t) # "none" /\ ~TaskDone(TaskState(c, t))
        pend == {t \in Tasks : notDone(t)}
    IN  IF pendingBound /\ pend # {} /\ Cardinality(pend) = 1
        THEN <<CHOOSE t \in pend : TRUE>>
        ELSE SelectSeq(<<"c2a", "a2c">>, notDone)

\* tasks_to_cancel: list(pending) when pending is bound and not empty, else the
\* relay tasks that exist and are not done, agent_to_client first
TasksToCancel(c, pendingBound) ==
    LET notDone(t) == TaskState(c, t) # "none" /\ ~TaskDone(TaskState(c, t))
        pend == {t \in Tasks : notDone(t)}
    IN  IF pendingBound /\ pend # {} /\ Cardinality(pend) = 1
        THEN <<CHOOSE t \in pend : TRUE>>
        ELSE SelectSeq(<<"a2c", "c2a">>, notDone)

\* for task in tasks_to_cancel: the tasks already done are passed over
RECURSIVE DropDone(_, _)
DropDone(c, list) ==
    IF list = <<>> THEN <<>>
    ELSE IF TaskDone(TaskState(c, Head(list))) THEN DropDone(c, Tail(list))
         ELSE list

\* the end of the finally block without the websocket.close(code=1000)
CloseResources_NoSocketClose(c) ==
    /\ lrq' = [lrq EXCEPT ![c] = IF @ # "none" THEN "closed" ELSE @]
    /\ lrqCloses' = [lrqCloses EXCEPT ![c] = IF lrq[c] # "none" THEN @ + 1 ELSE @]
    /\ transport' = transport
    /\ hpc' = [hpc EXCEPT ![c] = "closed"]

\* live_request_queue.close() if the queue exists; websocket.close(code=1000) if
\* client_state is still CONNECTED (on a wire the peer closed the close raises
\* and is logged)
CloseResources(c) ==
    /\ lrq' = [lrq EXCEPT ![c] = IF @ # "none" THEN "closed" ELSE @]
    /\ lrqCloses' = [lrqCloses EXCEPT ![c] = IF lrq[c] # "none" THEN @ + 1 ELSE @]
    /\ transport' = [transport EXCEPT ![c] =
                        IF client_state[c] = "CONNECTED" /\ @ = "open"
                        THEN "server_closed" ELSE @]
    /\ hpc' = [hpc EXCEPT ![c] = "closed"]

\* the cancel loop from `list` on, up to its next await: the first task not done
\* is cancelled and awaited with wait_for; with none left the cleanup completes
CancelLoop(c, list) ==
    LET rest == DropDone(c, list)
    IN  IF rest = <<>>
        THEN /\ CloseResources(c)
             /\ cancelList' = [cancelList EXCEPT ![c] = <<>>]
             /\ timedOut' = [timedOut EXCEPT ![c] = FALSE]
             /\ UNCHANGED <<a2c, c2a>>
        ELSE /\ hpc' = [hpc EXCEPT ![c] = "cancelwait"]
             /\ cancelList' = [cancelList EXCEPT ![c] = rest]
             /\ timedOut' = [timedOut EXCEPT ![c] = FALSE]
             /\ a2c' = [a2c EXCEPT ![c] = IF Head(rest) = "a2c" THEN "cancelling" ELSE @]
             /\ c2a' = [c2a EXCEPT ![c] = IF Head(rest) = "c2a" THEN "cancelling" ELSE @]
             /\ UNCHANGED <<lrq, lrqCloses, transport>>

\* the finally block cancelling the relays first, the context variable and the
\* registry entry left as they are until then
Finally_CancelsFirst(c, pendingBound) ==
    /\ UNCHANGED handlerCtx
    /\ UNCHANGED active_websockets
    /\ CancelLoop(c, TasksToCancel(c, pendingBound))

\* the finally block clearing the whole registry instead of popping one key
Finally_ClearsRegistry(c, pendingBound) ==
    /\ handlerCtx' = [handlerCtx EXCEPT ![c] = None]
    /\ active_websockets' = [s \in Sessions |-> None]
    /\ CancelLoop(c, TasksToCancel(c, pendingBound))

\* the finally block without the reset of the context variable
Finally_NoReset(c, pendingBound) ==
    /\ UNCHANGED handlerCtx
    /\ active_websockets' = [active_websockets EXCEPT ![sid[c]] = None]
    /\ CancelLoop(c, TasksToCancel(c, pendingBound))

\* the finally block without the pop of the registry entry
Finally_KeepsEntry(c, pendingBound) ==
    /\ handlerCtx' = [handlerCtx EXCEPT ![c] = None]
    /\ UNCHANGED active_websockets
    /\ CancelLoop(c, TasksToCancel(c, pendingBound))

\* the finally block up to its first await: the context var is reset, the
\* registry entry of session_id is popped, tasks_to_cancel is built and walked
Finally(c, pendingBound) ==
    /\ handlerCtx' = [handlerCtx EXCEPT ![c] = None]
    /\ active_websockets' = [active_websockets EXCEPT ![sid[c]] = None]
    /\ CancelLoop(c, TasksToCancel(c, pendingBound))

\* the handler without its try block: the error of start_agent_session leaves
\* the handler at once
StartAgentSessionFails_Propagates(c) ==
    /\ hpc[c] = "starting"
    /\ ~hcancel[c]
    /\ hpc' = [hpc EXCEPT ![c] = "failed"]
    /\ UNCHANGED <<active_websockets, handlerCtx, a2c, c2a, cancelList, timedOut,
                   lrq, lrqCloses, transport>>
    /\ UNCHANGED <<broadcaster, outbox, sid, hcancel, client_state, inbox,
                   clientSent, agentEmitted, live_events, a2cMsg, relayCtx>>
    /\ UNCHANGED <<channelVars, variantVars>>

\* start_agent_session raises: except Exception, then finally
StartAgentSessionFails(c) ==
    /\ hpc[c] = "starting"
    /\ ~hcancel[c]
    /\ Finally(c, FALSE)
    /\ UNCHANGED <<broadcaster, outbox, sid, hcancel, client_state, inbox,
                   clientSent, agentEmitted, live_events, a2cMsg, relayCtx>>
    /\ UNCHANGED <<channelVars, variantVars>>

\* the wait with return_when=ALL_COMPLETED
WaitReturns_AllCompleted(c) ==
    /\ hpc[c] = "waiting"
    /\ ~hcancel[c]
    /\ \A t \in Tasks : TaskDone(TaskState(c, t))
    /\ Finally(c, TRUE)
    /\ UNCHANGED <<broadcaster, outbox, sid, hcancel, client_state, inbox,
                   clientSent, agentEmitted, live_events, a2cMsg, relayCtx>>
    /\ UNCHANGED <<channelVars, variantVars>>

\* the wait given a timeout: it may return with no relay task done
WaitReturns_Spurious(c) ==
    /\ hpc[c] = "waiting"
    /\ ~hcancel[c]
    /\ Finally(c, TRUE)
    /\ UNCHANGED <<broadcaster, outbox, sid, hcancel, client_state, inbox,
                   clientSent, agentEmitted, live_events, a2cMsg, relayCtx>>
    /\ UNCHANGED <<channelVars, variantVars>>

\* asyncio.wait(..., FIRST_COMPLETED) returns: at least one relay task is done
WaitReturns(c) ==
    /\ hpc[c] = "waiting"
    /\ ~hcancel[c]
    /\ \E t \in Tasks : TaskDone(TaskState(c, t))
    /\ Finally(c, TRUE)
    /\ UNCHANGED <<broadcaster, outbox, sid, hcancel, client_state, inbox,
                   clientSent, agentEmitted, live_events, a2cMsg, relayCtx>>
    /\ UNCHANGED <<channelVars, variantVars>>

\* the server cancels the handler task while it is suspended in the try block
CancelHandler(c) ==
    /\ hpc[c] \in {"starting", "waiting"}
    /\ ~hcancel[c]
    /\ hcancel' = [hcancel EXCEPT ![c] = TRUE]
    /\ UNCHANGED <<active_websockets, broadcaster, outbox, sid, hpc, client_state,
                   transport, lrq, lrqCloses, inbox, clientSent, agentEmitted, live_events, a2c, a2cMsg,
                   c2a, cancelList, timedOut, handlerCtx, relayCtx>>
    /\ UNCHANGED <<channelVars, variantVars>>

\* the cancellation reaches the handler at its await in the try block:
\* CancelledError passes except Exception and reaches finally, pending unbound
HandlerCancelled(c) ==
    /\ hpc[c] \in {"starting", "waiting"}
    /\ hcancel[c]
    /\ hcancel' = [hcancel EXCEPT ![c] = FALSE]
    /\ Finally(c, FALSE)
    /\ UNCHANGED <<broadcaster, outbox, sid, client_state, inbox, clientSent,
                   agentEmitted, live_events, a2cMsg, relayCtx>>
    /\ UNCHANGED <<channelVars, variantVars>>

\* the 2.0 s of wait_for(task, timeout=2.0) elapse with the task not yet ended
WaitForTimeout(c) ==
    /\ hpc[c] = "cancelwait"
    /\ ~timedOut[c]
    /\ ~TaskDone(TaskState(c, Head(cancelList[c])))
    /\ timedOut' = [timedOut EXCEPT ![c] = TRUE]
    /\ UNCHANGED <<active_websockets, broadcaster, outbox, sid, hpc, hcancel,
                   client_state, transport, lrq, lrqCloses, inbox, clientSent, agentEmitted, live_events,
                   a2c, a2cMsg, c2a, cancelList, handlerCtx, relayCtx>>
    /\ UNCHANGED <<channelVars, variantVars>>

\* a wait_for that gives the task up when the timeout expires: TimeoutError is
\* raised at once, with the cancelled task still to end
WaitForReturns_AbandonsOnTimeout(c) ==
    /\ hpc[c] = "cancelwait"
    /\ TaskDone(TaskState(c, Head(cancelList[c]))) \/ timedOut[c]
    /\ CancelLoop(c, Tail(cancelList[c]))
    /\ UNCHANGED <<active_websockets, broadcaster, outbox, sid, hcancel,
                   client_state, inbox, clientSent, agentEmitted, live_events, a2cMsg,
                   handlerCtx, relayCtx>>
    /\ UNCHANGED <<channelVars, variantVars>>

\* the cancel loop without except asyncio.CancelledError: the error of the
\* wait for a cancelled task leaves the finally block and the handler ends there
WaitForReturns_CancelledEscapes(c) ==
    /\ hpc[c] = "cancelwait"
    /\ TaskDone(TaskState(c, Head(cancelList[c])))
    /\ IF ~timedOut[c]
       THEN /\ hpc' = [hpc EXCEPT ![c] = "failed"]
            /\ UNCHANGED <<a2c, c2a, cancelList, timedOut, lrq, lrqCloses, transport>>
       ELSE CancelLoop(c, Tail(cancelList[c]))
    /\ UNCHANGED <<active_websockets, broadcaster, outbox, sid, hcancel,
                   client_state, inbox, clientSent, agentEmitted, live_events,
                   a2cMsg, handlerCtx, relayCtx>>
    /\ UNCHANGED <<channelVars, variantVars>>

\* the cancel loop without except asyncio.TimeoutError: the error leaves the
\* finally block and the handler ends there
WaitForReturns_TimeoutEscapes(c) ==
    /\ hpc[c] = "cancelwait"
    /\ TaskDone(TaskState(c, Head(cancelList[c])))
    /\ IF timedOut[c]
       THEN /\ hpc' = [hpc EXCEPT ![c] = "failed"]
            /\ UNCHANGED <<a2c, c2a, cancelList, timedOut, lrq, lrqCloses, transport>>
       ELSE CancelLoop(c, Tail(cancelList[c]))
    /\ UNCHANGED <<active_websockets, broadcaster, outbox, sid, hcancel,
                   client_state, inbox, clientSent, agentEmitted, live_events, a2cMsg,
                   handlerCtx, relayCtx>>
    /\ UNCHANGED <<channelVars, variantVars>>

\* wait_for returns once the awaited task has ended: CancelledError or, after
\* the timeout, TimeoutError; either is logged and the loop goes on
WaitForReturns(c) ==
    /\ hpc[c] = "cancelwait"
    /\ TaskDone(TaskState(c, Head(cancelList[c])))
    /\ CancelLoop(c, Tail(cancelList[c]))
    /\ UNCHANGED <<active_websockets, broadcaster, outbox, sid, hcancel,
                   client_state, inbox, clientSent, agentEmitted, live_events, a2cMsg,
                   handlerCtx, relayCtx>>
    /\ UNCHANGED <<channelVars, variantVars>>

\* ------------------------------------------------------------ specification
Init ==
    /\ active_websockets = [s \in Sessions |-> None]
    /\ statusQueue = <<>>
    /\ nextMsg = 1
    /\ broadcaster = "running"
    /\ sid = [c \in Conns |-> None]
    /\ hpc = [c \in Conns |-> "idle"]
    /\ hcancel = [c \in Conns |-> FALSE]
    /\ client_state = [c \in Conns |-> "CONNECTING"]
    /\ transport = [c \in Conns |-> "open"]
    /\ lrq = [c \in Conns |-> "none"]
    /\ lrqCloses = [c \in Conns |-> 0]
    /\ inbox = [c \in Conns |-> <<>>]
    /\ clientSent = [c \in Conns |-> 0]
    /\ agentEmitted = [c \in Conns |-> 0]
    /\ live_events = [c \in Conns |-> <<>>]
    /\ a2c = [c \in Conns |-> "none"]
    /\ a2cMsg = [c \in Conns |-> NoMessage]
    /\ c2a = [c \in Conns |-> "none"]
    /\ cancelList = [c \in Conns |-> <<>>]
    /\ timedOut = [c \in Conns |-> FALSE]
    /\ outbox = [c \in Conns |-> <<>>]
    /\ handlerCtx = [c \in Conns |-> None]
    /\ relayCtx = [c \in Conns |-> None]
    /\ status_messages = <<>>
    /\ work_threads = <<>>
    /\ work_thread_holder = 0
    /\ responses = <<>>
    /\ mpc = "init"
    /\ previously_broadcast_statuses = {}
    /\ new_unique_statuses_to_broadcast = {}
    /\ ws_items = <<>>
    /\ ws_i = 0
    /\ msgs_left = {}

HandlerStep(c) ==
    \/ StartAgentSession(c)
    \/ StartAgentSessionFails(c)
    \/ WaitReturns(c)
    \/ HandlerCancelled(c)
    \/ WaitForReturns(c)

RelayStep(c) ==
    \/ C2ADisconnect(c)
    \/ \E t \in Tasks : RelayCancelled(c, t)

\* what the clients, the agent runtime, the clock and the server do to a session
SessionEnvironment ==
    \/ \E c \in Conns, s \in Sessions : Connect(c, s)
    \/ \E c \in Conns : ClientClose(c)
    \/ \E c \in Conns : CancelHandler(c)
    \/ \E c \in Conns : WaitForTimeout(c)
    \/ \E c \in Conns : A2CStreamEnds(c)

\* the messages relayed between client and agent
Traffic ==
    \/ \E c \in Conns, event \in AgentEvents : A2CEvent(c, event)
    \/ \E c \in Conns : A2CSend(c)
    \/ \E c \in Conns : C2AReceive(c)
    \/ \E c \in Conns : C2AError(c)

\* the producers of status messages
Producers ==
    \/ \E s \in Sessions : AddStatusMessage(s)
    \/ \E c \in Conns : status_message(c)

Sessions_Next ==
    \/ \E c \in Conns : HandlerStep(c)
    \/ \E c \in Conns : RelayStep(c)
    \/ SessionEnvironment

Next ==
    \/ Sessions_Next
    \/ Traffic
    \/ Producers
    \/ status_message_broadcaster

Spec == Init /\ [][Next]_vars

\* the sessions and their relays, no status message produced
SessionSpec == Init /\ [][Sessions_Next \/ Traffic]_vars

\* the sessions and the status pipeline, no chat message relayed
StatusSpec == Init /\ [][Sessions_Next \/ Producers \/ status_message_broadcaster]_vars

\* the event loop runs every task that is ready: the broadcaster with a message
\* queued, a handler whose await has completed, a relay with a send to make, a
\* close or a cancellation to observe
Fairness ==
    /\ WF_vars(status_message_broadcaster)
    /\ \A c \in Conns : WF_vars(HandlerStep(c))
    /\ \A c \in Conns : WF_vars(RelayStep(c))
    /\ \A c \in Conns : WF_vars(A2CSend(c))

FairSessionSpec == SessionSpec /\ Fairness

FairStatusSpec == StatusSpec /\ Fairness

\* one connection served alone, with more traffic: its handler and relays, its
\* client, its agent runtime, the producers of status messages for it and the
\* broadcaster
Solo == "w1"

SoloSession == "s1"

Relay_Next ==
    \/ Connect(Solo, SoloSession)
    \/ HandlerStep(Solo)
    \/ RelayStep(Solo)
    \/ ClientClose(Solo)
    \/ CancelHandler(Solo)
    \/ WaitForTimeout(Solo)
    \/ A2CStreamEnds(Solo)
    \/ \E event \in AgentEvents : A2CEventWithin(Solo, event, MaxSolo)
    \/ A2CSend(Solo)
    \/ C2AReceiveWithin(Solo, MaxSolo)
    \/ C2AError(Solo)
    \/ AddStatusMessage(SoloSession)
    \/ status_message(Solo)
    \/ status_message_broadcaster

RelaySpec == Init /\ [][Relay_Next]_vars

\* every shape an event of the agent runtime can have for the relay: the two
\* flags in any combination, with or without text
AnyAgentEvent == [turn_complete : BOOLEAN, interrupted : BOOLEAN,
                  text : {None, "", "hi"}]

\* one connection served alone whose agent emits events of any shape
Event_Next ==
    \/ Connect(Solo, SoloSession)
    \/ HandlerStep(Solo)
    \/ RelayStep(Solo)
    \/ ClientClose(Solo)
    \/ CancelHandler(Solo)
    \/ WaitForTimeout(Solo)
    \/ A2CStreamEnds(Solo)
    \/ \E event \in AnyAgentEvent : A2CEventWithin(Solo, event, MaxMixed)
    \/ A2CSend(Solo)

EventSpec == Init /\ [][Event_Next]_vars

\* ------------------------------------------------ src/example app/app.py
\* everything of the WebSocket bridge
bridgeVars == <<active_websockets, broadcaster, outbox, connVars, channelVars>>

\* add_status_message(text) of the list-based status_messenger
append_status_message(list, text) == Append(list, text)

\* the add_status_message calls of do_simulated_work_sync, in program order
WorkStatuses ==
    <<"Starting simulated work (FastAPI)...",
      "Processing step 1 of 5...", "Processing step 2 of 5...",
      "Processing step 3 of 5...", "Processing step 4 of 5...",
      "Processing step 5 of 5...",
      "Simulated work completed!",
      "Ready for new work or displaying results.">>

ReceivedStatus == "Received request to start work (FastAPI)."

\* work_thread_holder["thread"] and work_thread_holder["thread"].is_alive(): a
\* thread is alive from start() until do_simulated_work_sync has returned
is_alive(i) == i # 0 /\ work_threads[i] <= Len(WorkStatuses)

\* the endpoint starting a thread whatever the holder says
trigger_work_endpoint_NoCheck ==
    /\ Len(responses) < MaxPosts
    /\ status_messages' = append_status_message(status_messages, ReceivedStatus)
    /\ work_threads' = Append(work_threads, 0)
    /\ work_thread_holder' = Len(work_threads) + 1
    /\ responses' = Append(responses, 200)
    /\ UNCHANGED <<bridgeVars, monitorVars>>

\* POST /simulate_work: trigger_work_endpoint is a coroutine without an await,
\* so it runs on the event loop in one piece
trigger_work_endpoint ==
    /\ Len(responses) < MaxPosts
    /\ IF is_alive(work_thread_holder)
       THEN /\ responses' = Append(responses, 409)
            /\ UNCHANGED <<status_messages, work_threads, work_thread_holder>>
       ELSE /\ status_messages' = append_status_message(status_messages, ReceivedStatus)
            /\ work_threads' = Append(work_threads, 0)
            /\ work_thread_holder' = Len(work_threads) + 1
            /\ responses' = Append(responses, 200)
    /\ UNCHANGED <<bridgeVars, monitorVars>>

\* thread i runs its next statement of do_simulated_work_sync: the next
\* add_status_message, or, after the last one, the return
do_simulated_work_sync(i) ==
    /\ is_alive(i)
    /\ work_threads' = [work_threads EXCEPT ![i] = @ + 1]
    /\ status_messages' = IF work_threads[i] < Len(WorkStatuses)
                          THEN append_status_message(status_messages,
                                                     WorkStatuses[work_threads[i] + 1])
                          ELSE status_messages
    /\ UNCHANGED <<work_thread_holder, responses>>
    /\ UNCHANGED <<bridgeVars, monitorVars>>

App_Next ==
    \/ trigger_work_endpoint
    \/ \E i \in 1..Len(work_threads) : do_simulated_work_sync(i)

AppSpec == Init /\ [][App_Next]_vars

\* ------------------------------------------------- src/backup/main.py
\* The polling variant: status texts are kept in one list, and
\* application_status_monitor polls it and sends what is new to every
\* registered connection.  Of its websocket_endpoint only what the monitor can
\* see is modelled (registration, the state of the socket, the teardown); the
\* server_log frames it writes are left out.
Texts == {"a", "b"}

\* get_status_messages() of the list-based status_messenger, as a set
StatusSet(list) == {list[k] : k \in 1..Len(list)}

\* the poll sending everything in the list each time
NewStatuses_All(list, previously) == StatusSet(list)

\* set(current_all_statuses) - previously_broadcast_statuses
NewStatuses(list, previously) == StatusSet(list) \ previously

\* the orders in which list(active_websockets.items()) can give the entries
Items(reg) ==
    LET entries == {[sid |-> s, ws |-> reg[s]] : s \in {x \in Sessions : reg[x] # None}}
    IN  {seq \in [1..Cardinality(entries) -> entries] :
            \A i, j \in 1..Cardinality(entries) : i # j => seq[i] # seq[j]}

\* the outer for loop from entry i on, up to the first entry whose socket is
\* connected (the monitor then suspends in its first send to it); the entries
\* passed on the way are not connected and are popped from the registry
RECURSIVE NextWs(_, _, _)
NextWs(items, i, reg) ==
    IF i > Len(items) THEN [i |-> i, reg |-> reg]
    ELSE IF client_state[items[i].ws] = "CONNECTED" THEN [i |-> i, reg |-> reg]
    ELSE NextWs(items, i + 1, [reg EXCEPT ![items[i].sid] = None])

\* the monitor goes on from entry i of items: it suspends in a send to the next
\* connected socket, or the loop is over, the texts are remembered as
\* broadcast and the monitor sleeps again
MonitorGoesOn(items, i, new) ==
    LET r == NextWs(items, i, active_websockets)
    IN  /\ active_websockets' = r.reg
        /\ IF r.i > Len(items)
           THEN /\ previously_broadcast_statuses' = previously_broadcast_statuses \cup new
                /\ mpc' = "sleep"
                /\ ws_items' = <<>> /\ ws_i' = 0 /\ msgs_left' = {}
                /\ new_unique_statuses_to_broadcast' = {}
           ELSE /\ UNCHANGED previously_broadcast_statuses
                /\ mpc' = "sending"
                /\ ws_items' = items /\ ws_i' = r.i /\ msgs_left' = new
                /\ new_unique_statuses_to_broadcast' = new

\* add_status_message(text) called by a tool or by background work
Backup_add_status_message(text) ==
    /\ Len(status_messages) < MaxStatuses
    /\ status_messages' = append_status_message(status_messages, text)
    /\ UNCHANGED <<bridgeVars, appVars, monitorVars>>

\* application_status_monitor starts: previously_broadcast_statuses = set(get_status_messages())
MonitorStart ==
    /\ mpc = "init"
    /\ previously_broadcast_statuses' = StatusSet(status_messages)
    /\ mpc' = "sleep"
    /\ UNCHANGED <<new_unique_statuses_to_broadcast, ws_items, ws_i, msgs_left>>
    /\ UNCHANGED <<bridgeVars, appVars, status_messages>>

\* the sleep of 0.5 s is over and the list holds something new: the monitor
\* takes list(active_websockets.items()) and runs up to its first send
MonitorPoll ==
    /\ mpc = "sleep"
    /\ LET new == NewStatuses(status_messages, previously_broadcast_statuses)
       IN  /\ new # {}
           /\ \E items \in Items(active_websockets) : MonitorGoesOn(items, 1, new)
    /\ UNCHANGED <<broadcaster, outbox, connVars, channelVars, appVars, status_messages>>

\* a send_text of broadcast_app_status_to_client completes (an exception is
\* caught and logged) and the monitor runs up to its next send: the next text
\* for the same socket while it still reports connected, else the next socket
MonitorSent ==
    /\ mpc = "sending"
    /\ \E msg \in msgs_left :
         LET ws == ws_items[ws_i].ws
             left == msgs_left \ {msg}
         IN  /\ outbox' = SendText(ws, StatusFrame(msg))
             /\ IF left # {} /\ client_state[ws] = "CONNECTED"
                THEN /\ msgs_left' = left
                     /\ UNCHANGED <<active_websockets, mpc, previously_broadcast_statuses,
                                    new_unique_statuses_to_broadcast, ws_items, ws_i>>
                ELSE MonitorGoesOn(ws_items, ws_i + 1, new_unique_statuses_to_broadcast)
    /\ UNCHANGED <<broadcaster, connVars, channelVars, appVars, status_messages>>

\* websocket_endpoint of the polling variant: accept and register
Backup_Connect(c, s) ==
    /\ hpc[c] = "idle"
    /\ ConnectOrder(c, s)
    /\ sid' = [sid EXCEPT ![c] = s]
    /\ client_state' = [client_state EXCEPT ![c] = "CONNECTED"]
    /\ active_websockets' = [active_websockets EXCEPT ![s] = c]
    /\ hpc' = [hpc EXCEPT ![c] = "waiting"]
    /\ UNCHANGED <<broadcaster, outbox, hcancel, transport, lrq, lrqCloses, inbox,
                   clientSent, agentEmitted, live_events, a2c, a2cMsg, c2a, cancelList,
                   timedOut, handlerCtx, relayCtx>>
    /\ UNCHANGED <<channelVars, variantVars>>

\* receive_text of the receiving relay meets the client's close
Backup_Disconnected(c) ==
    /\ hpc[c] = "waiting"
    /\ transport[c] = "peer_closed"
    /\ client_state[c] = "CONNECTED"
    /\ client_state' = [client_state EXCEPT ![c] = "DISCONNECTED"]
    /\ UNCHANGED <<active_websockets, broadcaster, outbox, sid, hpc, hcancel, transport,
                   lrq, lrqCloses, inbox, clientSent, agentEmitted, live_events, a2c,
                   a2cMsg, c2a, cancelList, timedOut, handlerCtx, relayCtx>>
    /\ UNCHANGED <<channelVars, variantVars>>

\* a relay has ended: the finally block pops the entry of session_id and
\* starts cancelling the other relay
Backup_Finally(c) ==
    /\ hpc[c] = "waiting"
    /\ active_websockets' = [active_websockets EXCEPT ![sid[c]] = None]
    /\ hpc' = [hpc EXCEPT ![c] = "cancelwait"]
    /\ UNCHANGED <<broadcaster, outbox, sid, hcancel, client_state, transport,
                   lrq, lrqCloses, inbox, clientSent, agentEmitted, live_events, a2c,
                   a2cMsg, c2a, cancelList, timedOut, handlerCtx, relayCtx>>
    /\ UNCHANGED <<channelVars, variantVars>>

\* the end of the finally block: websocket.close(code=1000) if still connected
Backup_Close(c) ==
    /\ hpc[c] = "cancelwait"
    /\ transport' = [transport EXCEPT ![c] =
                        IF client_state[c] = "CONNECTED" /\ @ = "open"
                        THEN "server_closed" ELSE @]
    /\ hpc' = [hpc EXCEPT ![c] = "closed"]
    /\ UNCHANGED <<active_websockets, broadcaster, outbox, sid, hcancel, client_state,
                   lrq, lrqCloses, inbox, clientSent, agentEmitted, live_events, a2c,
                   a2cMsg, c2a, cancelList, timedOut, handlerCtx, relayCtx>>
    /\ UNCHANGED <<channelVars, variantVars>>

Monitor_Next ==
    \/ \E c \in Conns, s \in Sessions : Backup_Connect(c, s)
    \/ \E c \in Conns : ClientClose(c)
    \/ \E c \in Conns : Backup_Disconnected(c)
    \/ \E c \in Conns : Backup_Finally(c)
    \/ \E c \in Conns : Backup_Close(c)
    \/ \E text \in Texts : Backup_add_status_message(text)
    \/ MonitorStart
    \/ MonitorPoll
    \/ MonitorSent

MonitorSpec == Init /\ [][Monitor_Next]_vars

\* ============================================================ the properties
\* the broadcaster takes the head of the channel in this step
Consumes == statusQueue # <<>> /\ statusQueue' = Tail(statusQueue)

\* a frame is appended to the stream of connection c in this step
Appends(c) == Len(outbox'[c]) = Len(outbox[c]) + 1

LastFrame(c) == outbox'[c][Len(outbox'[c])]

\* the status frames of a stream, in the order they were written
StatusData(frames) ==
    LET st == SelectSeq(frames, IsStatus) IN [i \in 1..Len(st) |-> st[i].data]

\* how many status frames carry text n, over all connections
RECURSIVE FrameCount(_, _)
FrameCount(n, S) ==
    IF S = {} THEN 0
    ELSE LET c == CHOOSE d \in S : TRUE
         IN  Len(SelectSeq(StatusData(outbox[c]), LAMBDA x : x = n))
               + FrameCount(n, S \ {c})

\* how many entries of the channel carry text n
QueueCount(n) == Len(SelectSeq(statusQueue, LAMBDA e : e.text = n))

\* C1: a status frame is written only in a step in which the broadcaster takes
\* its message (s, text) from the channel, and only to the handle the registry
\* maps s to in that very state; that handle's own session id is s, so the frame
\* never reaches a connection registered under another id.
C1_StatusFrameOnlyToRegisteredHandle ==
    [][\A c \in Conns :
         (Appends(c) /\ IsStatus(LastFrame(c))) =>
            /\ Consumes
            /\ active_websockets[Head(statusQueue).sid] = c
            /\ sid[c] = Head(statusQueue).sid
            /\ LastFrame(c) = StatusFrame(Head(statusQueue).text)]_vars

\* a status frame has been delivered while a connection of another session id
\* is registered and connected
C1_Witness ==
    \E c \in Conns, d \in Conns :
        /\ sid[c] # None /\ sid[d] # None /\ sid[c] # sid[d]
        /\ active_websockets[sid[d]] = d /\ client_state[d] = "CONNECTED"
        /\ transport[d] = "open"
        /\ Len(StatusData(outbox[c])) > 0

\* C2 as stated: a message enqueued while a connection was live for its target
\* yields, when the broadcaster handles it, its frame on that connection.
C2_EnqueuedWhileLiveIsDelivered ==
    [][(Consumes /\ Head(statusQueue).live # None) =>
          LET m == Head(statusQueue)
          IN  outbox'[m.live] = Append(outbox[m.live], StatusFrame(m.text))]_vars

\* C2 amended: a message whose target is, when the broadcaster handles it,
\* registered with a connected handle on an open wire yields exactly the frame
\* {type: status, data: text} on that handle and on no other; and with the
\* broadcaster scheduled fairly every message in the channel is handled.
C2_DeliveredWhenLiveAtHandling ==
    /\ [][(Consumes /\ Connected(active_websockets[Head(statusQueue).sid])
                    /\ transport[active_websockets[Head(statusQueue).sid]] = "open") =>
             LET m == Head(statusQueue)
                 ws == active_websockets[m.sid]
             IN  outbox' = [outbox EXCEPT ![ws] = Append(@, StatusFrame(m.text))]]_vars
    /\ \A n \in 1..MaxMsgs : (QueueCount(n) > 0) ~> (QueueCount(n) = 0)

\* a message enqueued while its target was live has been delivered there
C2_Witness ==
    \E c \in Conns :
        /\ sid[c] # None
        /\ Len(StatusData(outbox[c])) > 0
        /\ active_websockets[sid[c]] = c
        /\ statusQueue = <<>>

\* C3: when the broadcaster takes a message whose target has no registry entry
\* or a handle that is not connected, no stream changes, no session, relay or
\* producer is affected, and the broadcaster is still running on the rest of
\* the channel.
C3_MissIsDroppedSilently ==
    [][(Consumes /\ ~Connected(active_websockets[Head(statusQueue).sid])) =>
          /\ outbox' = outbox
          /\ broadcaster' = "running"
          /\ UNCHANGED <<active_websockets, nextMsg>>
          /\ UNCHANGED connVars]_vars

\* a message was taken from the channel while its target was registered with a
\* handle that is no longer connected, and nothing was sent
C3_Witness ==
    \E c \in Conns :
        /\ sid[c] # None
        /\ active_websockets[sid[c]] = c /\ client_state[c] = "DISCONNECTED"
        /\ nextMsg > 1 /\ statusQueue = <<>>
        /\ \A d \in Conns : outbox[d] = <<>>

C5_AtMostOnce ==
    /\ [](\A n \in 1..MaxMsgs : FrameCount(n, Conns) + QueueCount(n) <= 1)
    /\ [][\/ statusQueue' = statusQueue
          \/ Consumes
          \/ /\ Len(statusQueue') = Len(statusQueue) + 1
             /\ SubSeq(statusQueue', 1, Len(statusQueue)) = statusQueue
             /\ statusQueue'[Len(statusQueue')].text = nextMsg
             /\ nextMsg' = nextMsg + 1]_vars
    /\ [][\A n \in 1..MaxMsgs :
            (n < nextMsg /\ QueueCount(n) = 0) =>
               FrameCount(n, Conns)' = FrameCount(n, Conns)]_vars

\* a message was consumed without a frame, and a later connection with the
\* same id as its target is now registered, connected and served
C5_Witness ==
    \E c \in Conns, d \in Conns :
        /\ c # d /\ sid[c] = sid[d] /\ sid[d] # None
        /\ hpc[c] = "closed" /\ hpc[d] = "waiting"
        /\ active_websockets[sid[d]] = d /\ transport[d] = "open"
        /\ nextMsg > MaxMsgs /\ statusQueue = <<>>
        /\ \A e \in Conns : outbox[e] = <<>>

\* the handler has popped the registry and is in, or through, its cleanup
InTeardown(c) == hpc[c] \in {"cancelwait", "closed"}

\* the handler of c leaves its try block for the finally block in this step
EntersTeardown(c) == ~InTeardown(c) /\ InTeardown(c)'

\* a relay task that is running and has not been asked to stop
Running(st) == st \in {"pull", "send", "run"}

\* C6: once the client has closed the transport the handler reaches Closed;
\* entering teardown leaves no registry entry for its id, and while it is in
\* teardown or Closed an entry for that id can only come from another
\* connection registering the id.
C6_ClientCloseLeadsToClosed ==
    /\ \A c \in Conns : (transport[c] = "peer_closed") ~> (hpc[c] = "closed")
    /\ [][\A c \in Conns :
            EntersTeardown(c) => active_websockets'[sid[c]] = None]_vars
    /\ [][\A c \in Conns :
            (InTeardown(c) /\ active_websockets[sid[c]] = None
                           /\ active_websockets'[sid[c]] # None) =>
               \E d \in Conns \ {c} :
                   /\ hpc[d] = "idle" /\ hpc'[d] = "starting"
                   /\ sid'[d] = sid[c] /\ active_websockets'[sid[c]] = d]_vars

\* Closed after a client close that the receiving relay never saw: the sending
\* relay ended first and the receiving one was cancelled
C6_Witness ==
    \E c \in Conns :
        /\ hpc[c] = "closed" /\ transport[c] = "peer_closed"
        /\ a2c[c] = "done" /\ c2a[c] = "cancelled"
        /\ Len(outbox[c]) < agentEmitted[c]
        /\ active_websockets[sid[c]] = None

\* C7: a relay that has ended has closed the queue on its way out, and a
\* session that is Closed and had a queue created has it closed.
C7_QueueClosedAtClosed ==
    \A c \in Conns :
        /\ TaskDone(c2a[c]) => lrq[c] = "closed"
        /\ (hpc[c] = "closed" /\ lrq[c] # "none") => lrq[c] = "closed"

\* Closed with the queue closed after the agent stream ended first and the
\* receiving relay was cancelled
C7_Witness ==
    \E c \in Conns :
        /\ hpc[c] = "closed" /\ lrq[c] = "closed"
        /\ a2c[c] = "done" /\ c2a[c] = "cancelled" /\ transport[c] = "server_closed"

\* C8: with one relay task done the wait of the handler is over (it can
\* return at once, whatever the other relay does), and the step that ends
\* Active asks every relay task that is still running to stop, or has it next
\* in the list of tasks to cancel.
C8_FirstCompletedEndsActive ==
    /\ [](\A c \in Conns :
            (hpc[c] = "waiting" /\ ~hcancel[c]
                                /\ \E t \in Tasks : TaskDone(TaskState(c, t)))
               => ENABLED WaitReturns(c))
    /\ [][\A c \in Conns :
            (hpc[c] = "waiting" /\ hpc'[c] # "waiting") =>
               /\ hpc'[c] \in {"cancelwait", "closed"}
               /\ \A t \in Tasks :
                    \/ TaskDone(TaskState(c, t))
                    \/ TaskState(c, t)' = "cancelling"
                    \/ \E i \in 2..Len(cancelList'[c]) : cancelList'[c][i] = t]_vars

\* Draining after one relay finished while the other was still running
C8_Witness ==
    \E c \in Conns :
        /\ hpc[c] = "cancelwait"
        /\ c2a[c] = "done" /\ a2c[c] = "cancelling"

Registers(c) == hpc[c] = "idle" /\ hpc'[c] = "starting"

\* C11: the registry is a map from session ids to at most one handle each; the
\* step in which a connection registers id s leaves the entry of s pointing at
\* that connection, whatever handle was registered for s before, and leaves
\* the entries of the other ids alone.
C11_RegistryLastWriterWins ==
    /\ [](active_websockets \in [Sessions -> Conns \cup {None}])
    /\ [][\A c \in Conns :
            Registers(c) =>
               /\ active_websockets'[sid'[c]] = c
               /\ \A s \in Sessions \ {sid'[c]} :
                    active_websockets'[s] = active_websockets[s]]_vars

\* a second connection has registered the id of a first one that is still
\* Active: the one entry of the id points at the second
C11_Witness ==
    \E c \in Conns, d \in Conns :
        /\ c # d /\ sid[c] # None /\ sid[c] = sid[d]
        /\ hpc[c] = "waiting" /\ hpc[d] = "starting"
        /\ active_websockets[sid[c]] = d

\* the session id an enqueue without explicit id resolves to under the ambient
\* value `ambient` (None: it resolves to none and the message is dropped)
Resolves(ambient) ==
    LET q == add_status_message(<<>>, 0, None, ambient)
    IN  IF q = <<>> THEN None ELSE q[1].sid

\* the handler of c is inside the scope in which its context variable is bound
InScope(c) == hpc[c] \in {"starting", "waiting"}

\* the relay tasks of c have been created
HasRelays(c) == a2c[c] # "none"

\* the last entry of the channel after this step
LastEntry == statusQueue'[Len(statusQueue')]

\* C12: while the handler of c is in its bound scope an enqueue without
\* explicit id resolves to the id of c both in the handler and in the relay
\* tasks started in the scope, and the status_message tool run in the relay
\* of c appends a message tagged with the id of c.
C12_AmbientTagsOwnSession ==
    /\ [](\A c \in Conns :
            InScope(c) =>
               /\ Resolves(handlerCtx[c]) = sid[c]
               /\ HasRelays(c) => Resolves(relayCtx[c]) = sid[c])
    /\ [][\A c \in Conns :
            status_message(c) =>
               /\ InScope(c)
               /\ Len(statusQueue') = Len(statusQueue) + 1
               /\ LastEntry.sid = sid[c]
               /\ LastEntry.text = nextMsg]_vars

\* a message tagged with the id of a session is in the channel while the
\* handler of the session is in scope and the tool of its relay can run
C12_Witness ==
    \E c \in Conns :
        /\ hpc[c] = "waiting" /\ a2c[c] = "pull"
        /\ relayCtx[c] = sid[c] /\ handlerCtx[c] = sid[c]
        /\ statusQueue # <<>> /\ statusQueue[Len(statusQueue)].sid = sid[c]

\* C13: the handler enters its finally block only from the bound scope, the
\* step that enters it puts the context variable back to the value it had
\* before the binding (none), and it stays so through teardown and Closed.
C13_ContextRestoredOnEveryExit ==
    /\ [][\A c \in Conns :
            EntersTeardown(c) =>
               /\ handlerCtx[c] = sid[c]
               /\ handlerCtx'[c] = None]_vars
    /\ [](\A c \in Conns : InTeardown(c) => handlerCtx[c] = None)
    /\ [](\A c \in Conns : hpc[c] \in {"idle", "starting", "waiting", "cancelwait", "closed"})

\* Closed with both relays cancelled: the handler task itself was cancelled
\* while both relays were running, and the context variable is restored
C13_Witness ==
    \E c \in Conns :
        /\ hpc[c] = "closed" /\ handlerCtx[c] = None
        /\ a2c[c] = "cancelled" /\ c2a[c] = "cancelled"

\* C14: every task sees no binding or the id of its own session; a step that
\* binds or unbinds in the handler of one connection changes nothing of what
\* the handler and the relays of another connection see; and the tool run in
\* the relay of c tags its message with the id of c and never another one.
C14_NoLeakAcrossSessions ==
    /\ [](\A c \in Conns :
            /\ handlerCtx[c] \in {None, sid[c]}
            /\ relayCtx[c] \in {None, sid[c]})
    /\ [][\A c \in Conns, d \in Conns :
            (c # d /\ handlerCtx'[c] # handlerCtx[c]) =>
               /\ handlerCtx'[d] = handlerCtx[d]
               /\ relayCtx'[d] = relayCtx[d]]_vars
    /\ [][\A c \in Conns :
            (status_message(c) /\ statusQueue' # statusQueue) =>
               \A s \in Sessions \ {sid[c]} : LastEntry.sid # s]_vars

\* two sessions with different ids served at once, one Active with its tool
\* able to run, the other in the middle of its teardown, and a message of
\* the first in the channel
C14_Witness ==
    \E c \in Conns, d \in Conns :
        /\ sid[c] # None /\ sid[d] # None /\ sid[c] # sid[d]
        /\ hpc[c] = "waiting" /\ a2c[c] = "pull" /\ relayCtx[c] = sid[c]
        /\ hpc[d] = "cancelwait" /\ handlerCtx[d] = None /\ relayCtx[d] = sid[d]
        /\ statusQueue # <<>> /\ statusQueue[Len(statusQueue)].sid = sid[c]

\* C15: once the handler of c has reset the context variable, an enqueue
\* without explicit id made by the handler resolves to no session, and the
\* tool of the agent relay does not run any more: the relay that runs the
\* tool is asked to stop in the very step of the reset, before any other
\* relay is awaited.
C15_BindingEndsWithScope ==
    /\ [](\A c \in Conns : InTeardown(c) => Resolves(handlerCtx[c]) = None)
    /\ [](\A c \in Conns : InTeardown(c) => a2c[c] # "pull")
    /\ [][\A c \in Conns : status_message(c) => ~InTeardown(c)]_vars

\* the handler was cancelled with both relays running: it has reset its
\* context variable and waits for the agent relay, whose copy of the binding
\* still names the session, while the receiving relay is still running
C15_Witness ==
    \E c \in Conns :
        /\ hpc[c] = "cancelwait" /\ handlerCtx[c] = None
        /\ a2c[c] = "cancelling" /\ c2a[c] = "run"
        /\ relayCtx[c] = sid[c] /\ nextMsg <= MaxMsgs

\* the frames of a stream that are not status frames, in the order written
AgentFrames(frames) == SelectSeq(frames, LAMBDA f : ~IsStatus(f))

\* the outbound frame of each variant of AgentEvent
FrameOfVariant(e) ==
    IF e = TurnComplete THEN [type |-> "agent_turn_complete", turn_complete |-> TRUE]
    ELSE IF e = Interrupted THEN [type |-> "agent_interrupted", interrupted |-> TRUE]
    ELSE [type |-> "agent_message", message |-> e.text]

\* the event is a turn end, an interruption or a message with text in it
CarriesFrame(e) == e \in {TurnComplete, Interrupted} \/ e.text \notin {None, ""}

\* the frames due for a sequence of events, in the order of the events
FramesDue(events) ==
    LET ev == SelectSeq(events, CarriesFrame)
    IN  [i \in 1..Len(ev) |-> FrameOfVariant(ev[i])]

\* the relay of c receives an event from live_events in this step
ConsumesEvent(c) == Len(live_events'[c]) = Len(live_events[c]) + 1

LastEvent(c) == live_events'[c][Len(live_events'[c])]

\* C16: on every connection the agent frames written so far, status frames
\* left out, are the frames due for the events the relay has received, in the
\* order of the events, up to the one frame that is being sent; none is
\* written twice, none out of order, none skipped while the relay goes on.
C16_AgentFramesInEmitOrder ==
    \A c \in Conns :
        LET sent == AgentFrames(outbox[c])
            due == FramesDue(live_events[c])
        IN  /\ Len(sent) <= Len(due)
            /\ sent = SubSeq(due, 1, Len(sent))
            /\ a2c[c] = "pull" => sent = due
            /\ a2c[c] = "send" => Len(sent) = Len(due) - 1 /\ a2cMsg[c] = due[Len(due)]

\* two agent frames of different types written in the order of their events,
\* with a status frame of the broadcaster between them
C16_Witness ==
    \E c \in Conns :
        /\ Len(outbox[c]) = 3
        /\ ~IsStatus(outbox[c][1]) /\ IsStatus(outbox[c][2]) /\ ~IsStatus(outbox[c][3])
        /\ outbox[c][1] # outbox[c][3]

\* C17 as stated: every event the relay receives gives the frame of its variant.
C17_EveryEventGivesItsFrame ==
    [][\A c \in Conns :
         ConsumesEvent(c) =>
            /\ a2c'[c] = "send"
            /\ a2cMsg'[c] = FrameOfVariant(LastEvent(c))]_vars

\* C17 amended: an event that is a turn end, an interruption or a message
\* with text in it gives the frame of its variant, the text unchanged, and the
\* relay writes exactly that frame, once, when the transport takes it; an
\* event with no text or an empty text gives no frame and the relay goes on
\* to the next event.
C17_EventWithTextGivesItsFrame ==
    /\ [][\A c \in Conns :
            ConsumesEvent(c) =>
               IF CarriesFrame(LastEvent(c))
               THEN /\ a2c'[c] = "send"
                    /\ a2cMsg'[c] = FrameOfVariant(LastEvent(c))
                    /\ outbox' = outbox
               ELSE /\ a2c'[c] = "pull"
                    /\ a2cMsg'[c] = NoMessage
                    /\ outbox' = outbox]_vars
    /\ [][\A c \in Conns :
            (a2c[c] = "send" /\ a2c'[c] \in {"pull", "done"}) =>
               IF transport[c] = "open"
               THEN a2c'[c] = "pull" /\ outbox'[c] = Append(outbox[c], a2cMsg[c])
               ELSE a2c'[c] = "done" /\ outbox'[c] = outbox[c]]_vars
    /\ [][\A c \in Conns :
            (Appends(c) /\ ~IsStatus(LastFrame(c))) =>
               a2c[c] = "send" /\ LastFrame(c) = a2cMsg[c]]_vars

\* the relay has received a message with text, whose frame is written with the
\* text unchanged, and an event with an empty text, for which nothing was
\* written, and is waiting for the next event
C17_Witness ==
    \E c \in Conns :
        /\ a2c[c] = "pull"
        /\ \E i \in 1..Len(live_events[c]) : live_events[c][i] = Message("")
        /\ \E i \in 1..Len(live_events[c]) : live_events[c][i] = Message("hi")
        /\ AgentFrames(outbox[c]) = <<[type |-> "agent_message", message |-> "hi"]>>

\* C18: the agent's inbound queue holds, for the frames the relay has received
\* (numbered in the order the client sent them), one content unit each with
\* role "user" and the text of the frame, in that order; and it changes only
\* in a step in which the relay receives a frame.
C18_InboundOneToOneInOrder ==
    /\ [](\A c \in Conns :
            inbox[c] = [i \in 1..clientSent[c] |-> [role |-> "user", text |-> i]])
    /\ [][\A c \in Conns :
            inbox'[c] # inbox[c] =>
               /\ clientSent'[c] = clientSent[c] + 1
               /\ c2a[c] = "run" /\ c2a'[c] = "run"]_vars

\* three frames of one client handed to the agent, the relay still running
C18_Witness ==
    \E c \in Conns :
        /\ Len(inbox[c]) = MaxSolo /\ c2a[c] = "run"
        /\ inbox[c][1].text = 1 /\ inbox[c][MaxSolo].text = MaxSolo

\* C19: a handler that leaves Connecting without having started its relays
\* goes in that one step through its whole teardown to Closed: no relay task
\* and no queue exists, the context variable is restored, the registry has no
\* entry for its id, a transport that was connected and open is closed by the
\* server; and no handler ever ends anywhere but at Closed.
C19_InitFailureTearsDown ==
    /\ [][\A c \in Conns :
            (hpc[c] = "starting" /\ hpc'[c] \notin {"starting", "waiting"}) =>
               /\ hpc'[c] = "closed"
               /\ a2c'[c] = "none" /\ c2a'[c] = "none" /\ lrq'[c] = "none"
               /\ handlerCtx'[c] = None
               /\ active_websockets'[sid[c]] = None
               /\ (client_state[c] = "CONNECTED" /\ transport[c] = "open")
                     => transport'[c] = "server_closed"
               /\ transport[c] # "open" => transport'[c] = transport[c]]_vars
    /\ [](\A c \in Conns :
            /\ hpc[c] # "failed"
            /\ (hpc[c] = "starting" /\ ~hcancel[c]) => ENABLED StartAgentSessionFails(c)
            /\ hpc[c] \in {"idle", "starting"} => a2c[c] = "none" /\ c2a[c] = "none")

\* Closed without relay tasks and without a queue, the transport closed by the
\* server, while the other connection, which registered later, is Active
C19_Witness ==
    \E c \in Conns, d \in Conns :
        /\ c # d
        /\ hpc[c] = "closed" /\ a2c[c] = "none" /\ c2a[c] = "none" /\ lrq[c] = "none"
        /\ transport[c] = "server_closed" /\ handlerCtx[c] = None
        /\ hpc[d] = "waiting" /\ sid[d] # sid[c] /\ active_websockets[sid[c]] = None

\* the relay task t of c ends in this step without having been cancelled
RelayEnds(c, t) == Running(TaskState(c, t)) /\ TaskState(c, t)' = "done"

\* C20: a send that fails ends the sending relay; a step in which a relay ends
\* on its own (stream end or error, send or receive failure, disconnect)
\* leaves every handler, the sibling relay, the relays of the other
\* connections, the registry and the broadcaster as they were; a relay is
\* asked to stop only by the teardown of its own handler; and at Closed no
\* relay of the session is left running.
C20_RelayErrorEndsOnlyThatRelay ==
    /\ [][\A c \in Conns :
            (a2c[c] = "send" /\ transport[c] # "open" /\ a2c'[c] \notin {"send", "cancelling"})
               => a2c'[c] = "done" /\ outbox' = outbox]_vars
    /\ [][\A c \in Conns, t \in Tasks :
            RelayEnds(c, t) =>
               /\ UNCHANGED <<hpc, hcancel, active_websockets, broadcaster, channelVars>>
               /\ \A u \in Tasks \ {t} : TaskState(c, u)' = TaskState(c, u)
               /\ \A d \in Conns \ {c} :
                    /\ a2c'[d] = a2c[d] /\ c2a'[d] = c2a[d]
                    /\ lrq'[d] = lrq[d] /\ transport'[d] = transport[d]
                    /\ client_state'[d] = client_state[d] /\ outbox'[d] = outbox[d]]_vars
    /\ [][\A c \in Conns, t \in Tasks :
            (TaskState(c, t) # "cancelling" /\ TaskState(c, t)' = "cancelling") =>
               /\ hpc'[c] = "cancelwait"
               /\ Head(cancelList'[c]) = t]_vars
    /\ [](\A c \in Conns :
            /\ broadcaster = "running"
            /\ hpc[c] = "closed" => \A t \in Tasks : ~Running(TaskState(c, t))
            /\ (hpc[c] = "waiting" /\ ~hcancel[c] /\ a2c[c] = "done" /\ Running(c2a[c]))
                  => ENABLED WaitReturns(c))

\* the send of an agent frame failed on a transport the client had closed, the
\* sending relay ended, the receiving relay was cancelled in teardown, and the
\* session is Closed while the other connection is still Active
C20_Witness ==
    \E c \in Conns, d \in Conns :
        /\ c # d
        /\ hpc[c] = "closed" /\ a2c[c] = "done" /\ c2a[c] = "cancelled"
        /\ Len(AgentFrames(outbox[c])) < Len(FramesDue(live_events[c]))
        /\ hpc[d] = "waiting" /\ a2c[d] = "pull" /\ c2a[d] = "run"

\* the task the handler of c is awaiting in its cancel loop
Awaited(c) == Head(cancelList[c])

\* C21: a relay task that was asked to stop ends nowhere but in the cancelled
\* state, the receiving relay with the queue closed on its way out; the task
\* the handler awaits in its cancel loop is one it cancelled, and once it has
\* ended the handler finds it cancelled, never returned.
C21_CancellationReRaised ==
    /\ [][\A c \in Conns, t \in Tasks :
            (TaskState(c, t) = "cancelling" /\ TaskState(c, t)' # "cancelling") =>
               /\ TaskState(c, t)' = "cancelled"
               /\ t = "c2a" => lrq'[c] = "closed"
               /\ hpc'[c] = hpc[c]]_vars
    /\ [](\A c \in Conns :
            hpc[c] = "cancelwait" =>
               /\ cancelList[c] # <<>>
               /\ TaskState(c, Awaited(c)) \in {"cancelling", "cancelled"}
               /\ TaskState(c, Awaited(c)) = "cancelled" => ENABLED WaitForReturns(c))
    /\ [](\A c \in Conns, t \in Tasks :
            TaskState(c, t) = "cancelled" => InTeardown(c))

\* the handler is in its cancel loop, the relay it awaits has ended cancelled
\* within the time of the wait, and the other relay had ended on its own
C21_Witness ==
    \E c \in Conns :
        /\ hpc[c] = "cancelwait" /\ ~timedOut[c]
        /\ Awaited(c) = "a2c" /\ a2c[c] = "cancelled" /\ c2a[c] = "done"

\* the handler of c comes back from a wait_for of its cancel loop in this step
WaitForEnds(c) == hpc[c] = "cancelwait" /\ cancelList'[c] # cancelList[c]

C23_BroadcasterLeavesRegistry ==
    /\ [][Consumes => active_websockets' = active_websockets]_vars
    /\ [][active_websockets' # active_websockets =>
            \E c \in Conns :
               \/ /\ Registers(c)
                  /\ active_websockets' = [active_websockets EXCEPT ![sid'[c]] = c]
               \/ /\ EntersTeardown(c)
                  /\ active_websockets' = [active_websockets EXCEPT ![sid[c]] = None]]_vars

\* every message so far was taken without a frame written, the last target
\* being a handle whose peer has closed while its state still says connected
\* (the send raised); the handle is still registered
C23_Witness ==
    \E c \in Conns :
        /\ sid[c] # None /\ active_websockets[sid[c]] = c
        /\ client_state[c] = "CONNECTED" /\ transport[c] = "peer_closed"
        /\ nextMsg > 1 /\ statusQueue = <<>>
        /\ \A d \in Conns : outbox[d] = <<>> /\ (d # c => hpc[d] = "idle")

\* the handler of c reaches the end of its finally block in this step
ReachesClosed(c) == hpc[c] # "closed" /\ hpc'[c] = "closed"

\* C24: the step that reaches Closed closes the transport exactly when the
\* socket still reports connected and the wire is open (a wire the peer has
\* closed stays as it is), so the transport is never open at Closed; from
\* Closed on nothing of the connection changes any more: no handler step, no
\* relay step, no registration of its handle, no frame.
C24_ClosedIsTerminal ==
    /\ [][\A c \in Conns :
            ReachesClosed(c) =>
               /\ (client_state[c] = "CONNECTED" /\ transport[c] = "open")
                     => transport'[c] = "server_closed"
               /\ ~(client_state[c] = "CONNECTED" /\ transport[c] = "open")
                     => transport'[c] = transport[c]
               /\ client_state'[c] = client_state[c]]_vars
    /\ [](\A c \in Conns :
            hpc[c] = "closed" =>
               /\ transport[c] \in {"server_closed", "peer_closed"}
               /\ \A s \in Sessions : active_websockets[s] # c
               /\ \A t \in Tasks : TaskState(c, t) \in {"none", "done", "cancelled"})
    /\ [][\A c \in Conns :
            hpc[c] = "closed" =>
               /\ hpc'[c] = "closed"
               /\ <<sid[c], hcancel[c], client_state[c], transport[c], lrq[c], lrqCloses[c],
                     inbox[c], clientSent[c], agentEmitted[c], live_events[c],
                     a2c[c], a2cMsg[c], c2a[c], cancelList[c], timedOut[c],
                     outbox[c], handlerCtx[c], relayCtx[c]>>' =
                  <<sid[c], hcancel[c], client_state[c], transport[c], lrq[c], lrqCloses[c],
                    inbox[c], clientSent[c], agentEmitted[c], live_events[c],
                    a2c[c], a2cMsg[c], c2a[c], cancelList[c], timedOut[c],
                    outbox[c], handlerCtx[c], relayCtx[c]>>]_vars

\* both ways at Closed: one connection closed by the server while its socket
\* reported connected, the other left as the peer closed it, its socket
\* reporting disconnected
C24_Witness ==
    \E c, d \in Conns :
        /\ hpc[c] = "closed" /\ client_state[c] = "CONNECTED"
        /\ transport[c] = "server_closed"
        /\ hpc[d] = "closed" /\ client_state[d] = "DISCONNECTED"
        /\ transport[d] = "peer_closed"

C26_QueueClosedAtMostOnce ==
    \A c \in Conns : lrqCloses[c] <= 1

\* Closed after the receiving relay closed the queue on the client's disconnect
\* and the handler closed it again at the end of its finally block
C26_Witness ==
    \E c \in Conns :
        /\ hpc[c] = "closed" /\ c2a[c] = "done" /\ client_state[c] = "DISCONNECTED"
        /\ lrq[c] = "closed" /\ lrqCloses[c] = 2

\* C27: a handler entering teardown removes the registry entry of its session
\* id only if that entry is its own handle; an entry a newer connection has
\* written for the same id is left as it is.
C27_TeardownRemovesOnlyOwnEntry ==
    [][\A c \in Conns :
          (EntersTeardown(c) /\ active_websockets[sid[c]] # c)
             => active_websockets' = active_websockets]_vars

\* the newer of two connections with the same session id is active, connected
\* on an open wire, and has no registry entry any more since the older one
\* tore down; the status messages handled so far gave it no frame
C27_Witness ==
    \E c, d \in Conns :
        /\ c # d /\ sid[c] # None /\ sid[c] = sid[d]
        /\ InTeardown(c)
        /\ hpc[d] = "waiting" /\ Connected(d) /\ transport[d] = "open"
        /\ active_websockets[sid[d]] = None
        /\ nextMsg > 1 /\ statusQueue = <<>> /\ outbox[d] = <<>>

\* a step of the teardown of c: the handler enters its finally block, or, in
\* it, a wait of the cancel loop ends or times out, a cancelled relay of c
\* ends, or the handler closes the queue and the socket
TeardownStep(c) ==
    \/ EntersTeardown(c)
    \/ /\ InTeardown(c)
       /\ <<hpc[c], cancelList[c], timedOut[c], a2c[c], c2a[c], lrq[c],
             lrqCloses[c], transport[c]>>' #
          <<hpc[c], cancelList[c], timedOut[c], a2c[c], c2a[c], lrq[c],
            lrqCloses[c], transport[c]>>

\* C28: a step of the teardown of one session leaves every session with a
\* different id as it is: its registry entry, its queue, its relay tasks, its
\* transport and its handler, whatever the sessions have done so far.
C28_TeardownLeavesOtherSessions ==
    [][\A c, d \in Conns :
          (TeardownStep(c) /\ sid[d] # None /\ sid[d] # sid[c]) =>
             /\ active_websockets'[sid[d]] = active_websockets[sid[d]]
             /\ lrq'[d] = lrq[d] /\ lrqCloses'[d] = lrqCloses[d]
             /\ a2c'[d] = a2c[d] /\ c2a'[d] = c2a[d]
             /\ transport'[d] = transport[d] /\ client_state'[d] = client_state[d]
             /\ hpc'[d] = hpc[d] /\ cancelList'[d] = cancelList[d]
             /\ handlerCtx'[d] = handlerCtx[d]]_vars

\* one session is Closed while a session with another id is active: registered,
\* both relays running, queue and wire open
C28_Witness ==
    \E c, d \in Conns :
        /\ sid[c] # None /\ sid[d] # None /\ sid[c] # sid[d]
        /\ hpc[c] = "closed"
        /\ hpc[d] = "waiting" /\ active_websockets[sid[d]] = d
        /\ \A t \in Tasks : Running(TaskState(d, t))
        /\ lrq[d] = "open" /\ transport[d] = "open" /\ handlerCtx[d] = sid[d]

\* the send of the message at the head of the channel raises: its target is
\* registered and reports connected, on a wire that is closed
SendRaises ==
    /\ statusQueue # <<>>
    /\ Connected(StatusTarget(Head(statusQueue)))
    /\ transport[StatusTarget(Head(statusQueue))] # "open"

\* C29: the broadcaster task never ends; the step in which a send raises takes
\* the message, writes nothing and leaves the rest of the channel in place, and
\* whenever the channel holds a message the broadcaster can take it.
C29_BroadcasterSurvivesSendFailure ==
    /\ [](broadcaster = "running")
    /\ [][(Consumes /\ SendRaises) =>
            /\ outbox' = outbox
            /\ broadcaster' = "running"
            /\ statusQueue' = Tail(statusQueue)]_vars
    /\ [](statusQueue # <<>> => ENABLED status_message_broadcaster)

\* the first message gave no frame (the send to a handle whose peer had closed
\* raised) and the second message, taken after it, is delivered to the other
\* connection
C29_Witness ==
    \E c, d \in Conns :
        /\ c # d /\ sid[c] # None /\ sid[d] # None /\ sid[c] # sid[d]
        /\ active_websockets[sid[c]] = c /\ Connected(c)
        /\ transport[c] = "peer_closed" /\ outbox[c] = <<>>
        /\ statusQueue = <<>> /\ broadcaster = "running"
        /\ StatusData(outbox[d]) = <<MaxMsgs>>

\* C30: a user message is put on the queue of a connection only while no
\* close() has been called on it; once close() has been called the receiving
\* relay has ended, and the handler makes its own close() only after the relay
\* has ended, also when the wait for its cancellation timed out.
C30_NoEnqueueAfterClose ==
    /\ [][\A c \in Conns :
            inbox'[c] # inbox[c] => (lrqCloses[c] = 0 /\ lrq[c] = "open")]_vars
    /\ [](\A c \in Conns :
            lrqCloses[c] > 0 => c2a[c] \in {"done", "cancelled"})
    /\ [][\A c \in Conns :
            (ReachesClosed(c) /\ lrq[c] # "none")
               => c2a[c] \in {"done", "cancelled"}]_vars

\* the wait for the cancelled receiving relay has timed out; the relay had
\* relayed a user message, and it closed the queue as it ended
C30_Witness ==
    \E c \in Conns :
        /\ hpc[c] = "cancelwait" /\ timedOut[c] /\ Awaited(c) = "c2a"
        /\ c2a[c] = "cancelled" /\ lrqCloses[c] = 1
        /\ inbox[c] # <<>>

\* the tasks the cancel loop of c has still to cancel or is waiting for
ToCancel(c) == {cancelList[c][i] : i \in 1..Len(cancelList[c])}

\* a relay task of c writes to or reads from the transport in this step
RelayUsesTransport(c) ==
    \/ Len(outbox'[c]) > Len(outbox[c]) /\ ~IsStatus(LastFrame(c))
    \/ clientSent'[c] # clientSent[c]
    \/ client_state'[c] # client_state[c] /\ client_state'[c] = "DISCONNECTED"

\* C31: at Closed both relay tasks have ended (or were never started): during
\* teardown every relay that has not ended is in the list the cancel loop
\* walks, a wait of the loop ends, by cancellation or by timeout, only when
\* the task awaited has ended, and from Closed on no relay of the session
\* writes a frame to the transport or reads from it.
C31_NoRelayRunsAfterClosed ==
    /\ [](\A c \in Conns, t \in Tasks :
            /\ hpc[c] = "closed" => TaskState(c, t) \in {"none", "done", "cancelled"}
            /\ (hpc[c] = "cancelwait" /\ TaskState(c, t) \notin {"none", "done", "cancelled"})
                  => t \in ToCancel(c))
    /\ [][\A c \in Conns :
            WaitForEnds(c) => TaskDone(TaskState(c, Awaited(c)))]_vars
    /\ [][\A c \in Conns :
            hpc[c] = "closed" =>
               /\ ~RelayUsesTransport(c)
               /\ a2c'[c] = a2c[c] /\ c2a'[c] = c2a[c]]_vars

\* Closed after a wait of the cancel loop: the receiving relay had ended on an
\* error and the sending relay, which had taken an event from the agent and
\* written no frame yet, was cancelled
C31_Witness ==
    \E c \in Conns :
        /\ hpc[c] = "closed" /\ a2c[c] = "cancelled" /\ c2a[c] = "done"
        /\ client_state[c] = "CONNECTED" /\ transport[c] = "server_closed"
        /\ agentEmitted[c] > 0 /\ outbox[c] = <<>>

TurnCompleteFrame == [type |-> "agent_turn_complete", turn_complete |-> TRUE]

InterruptedFrame == [type |-> "agent_interrupted", interrupted |-> TRUE]

\* the events of a sequence for which a frame is due
WithFrame(events) ==
    SelectSeq(events, LAMBDA e : e.turn_complete \/ e.interrupted
                                   \/ e.text \notin {None, ""})

AliveThreads == {i \in 1..Len(work_threads) : is_alive(i)}

\* the statuses of one accepted request: the endpoint's, then the thread's
WorkCycle == <<ReceivedStatus>> \o WorkStatuses

\* C33: at most one work thread is alive; a POST that finds the thread of the
\* holder alive answers 409, starts no thread and adds no status, a POST that
\* finds none alive answers 200, adds the endpoint's status and starts exactly
\* one thread, which the holder then refers to; and the list of statuses is
\* always whole cycles of (received, start, steps 1 to 5, completed, ready)
\* followed by the beginning of one, so each thread's statuses are in program
\* order and not mixed with another's.
C33_OneWorkThreadAtATime ==
    /\ [](Cardinality(AliveThreads) <= 1)
    /\ [][responses' # responses =>
            IF is_alive(work_thread_holder)
            THEN /\ responses' = Append(responses, 409)
                 /\ UNCHANGED <<status_messages, work_threads, work_thread_holder>>
            ELSE /\ responses' = Append(responses, 200)
                 /\ work_threads' = Append(work_threads, 0)
                 /\ work_thread_holder' = Len(work_threads')
                 /\ status_messages' = Append(status_messages, ReceivedStatus)]_vars
    /\ [](\A k \in 1..Len(status_messages) :
            status_messages[k] = WorkCycle[((k - 1) % Len(WorkCycle)) + 1])

\* a request was refused while the first thread was alive; that thread has
\* returned since and a second one, started by a later request, is at work
C33_Witness ==
    /\ responses = <<200, 409, 200>>
    /\ Len(work_threads) = 2 /\ ~is_alive(1) /\ work_threads[2] = 3
    /\ Len(status_messages) = Len(WorkCycle) + 4

\* the poll that is under way ends in this step
PollEnds == mpc = "sending" /\ mpc' = "sleep"

\* C34: the monitor writes a frame only for a text that is new at the poll
\* under way, never for one it has remembered as broadcast (the texts in the
\* list when it started are remembered from the start, and nothing is ever
\* forgotten), so no connection is sent the same text twice; when a poll ends
\* its new texts are remembered, and every socket that was in the registry when
\* the poll began and is still connected on an open wire has been sent each of
\* them; and a list holding a text not yet remembered lets the monitor poll.
C34_MonitorSendsNewTextsOnce ==
    /\ [][\A c \in Conns :
            outbox'[c] # outbox[c] =>
               /\ mpc = "sending" /\ c = ws_items[ws_i].ws
               /\ \E m \in msgs_left : outbox'[c] = Append(outbox[c], StatusFrame(m))
               /\ msgs_left \subseteq new_unique_statuses_to_broadcast
               /\ new_unique_statuses_to_broadcast \cap previously_broadcast_statuses = {}]_vars
    /\ [](\A c \in Conns : \A i, j \in 1..Len(outbox[c]) :
            i # j => outbox[c][i] # outbox[c][j])
    /\ [][/\ previously_broadcast_statuses \subseteq previously_broadcast_statuses'
          /\ (mpc = "init" /\ mpc' # "init")
                => previously_broadcast_statuses' = StatusSet(status_messages)]_vars
    /\ [][PollEnds =>
            /\ previously_broadcast_statuses' =
                  previously_broadcast_statuses \cup new_unique_statuses_to_broadcast
            /\ \A i \in 1..Len(ws_items) :
                  LET c == ws_items[i].ws
                  IN  (client_state'[c] = "CONNECTED" /\ transport'[c] = "open")
                         => \A m \in new_unique_statuses_to_broadcast :
                               \E k \in 1..Len(outbox'[c]) :
                                  outbox'[c][k] = StatusFrame(m)]_vars
    /\ [](( /\ mpc = "sleep"
            /\ NewStatuses(status_messages, previously_broadcast_statuses) # {})
              => ENABLED MonitorPoll)

\* "a" was in the list when the monitor started and was added again later,
\* "b" was added twice after the start: both connections got "b" once and
\* nothing else, and the monitor has nothing left to send
C34_Witness ==
    /\ mpc = "sleep"
    /\ status_messages \in {<<"a", "b", "b">>, <<"a", "b", "a">>}
    /\ previously_broadcast_statuses = {"a", "b"}
    /\ \A c \in Conns :
          /\ Connected(c) /\ transport[c] = "open" /\ sid[c] # None
          /\ active_websockets[sid[c]] = c
          /\ outbox[c] = <<StatusFrame("b")>>

====
